---------------------------- MODULE VTUFileSchema -----------------------------
(***************************************************************************)
(* The classes generated from the schema of a VTU file.  The program       *)
(* writes such files and never reads one.                                  *)
(***************************************************************************)
EXTENDS XMLTree

DataArrayList_t == Seq(Double)

type == {"Int8", "UInt8", "Int16", "UInt16", "Int32", "UInt32", "Int64", "UInt64",
         "Float32", "Float64"}

\* A list of numbers with attributes.
DataArray_t ==
    [values : DataArrayList_t, type : type, Name : STRING, NumberOfComponents : Integer,
     format : STRING, offset : OptionalOf(Integer)]

PointData == [DataArray : Seq(DataArray_t)]

CellData == [DataArray : Seq(DataArray_t)]

Points == [DataArray : Seq(DataArray_t)]

Cells == [DataArray : Seq(DataArray_t)]

PieceUnstructuredGrid_t ==
    [PointData : PointData, CellData : CellData, Points : Points, Cells : Cells,
     NumberOfPoints : Integer, NumberOfCells : Integer]

UnstructuredGrid_t == [Piece : PieceUnstructuredGrid_t]

PolyData_t == [greeting : STRING]

VTKFile_t ==
    [UnstructuredGrid : OptionalOf(UnstructuredGrid_t),
     PolyData : OptionalOf(PolyData_t), type : STRING, version : STRING,
     byte_order : STRING]

=============================================================================
