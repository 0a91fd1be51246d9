--------------------------- MODULE SimulationInput ----------------------------
(***************************************************************************)
(* From an input file to particles, to a checkpoint and a frame, and back: *)
(* the XML adapters, the spawners and the writers.  A process reads the    *)
(* input file, which somebody may have edited; the simulation moves the    *)
(* particles; a checkpoint and a VTU frame are written; the checkpoint is  *)
(* read, by a process that continues, or by the next input file with a     *)
(* check_point_loader.                                                     *)
(*                                                                         *)
(* Left out: the random velocities a temperature adds, and the simulation  *)
(* itself (Simulate gives every particle forces).  Sub simulations are in  *)
(* SubSimulations.                                                         *)
(***************************************************************************)
EXTENDS SimulationInputSchema, CheckpointSchema

VTU == INSTANCE VTUFileSchema

CONSTANTS
    Configurations, \* what the input files say before they are edited
    Texts,          \* for a name, the texts an edit gives such an element or attribute
    MaxEdits,       \* bound: edits of the input file and the checkpoint
    MaxRuns         \* bound: input files that are read

ASSUME /\ Configurations \subseteq ConfigurationType
       /\ MaxEdits \in Nat /\ MaxRuns \in Nat

VARIABLES
    phase,      \* what happens next
    document,   \* the input file
    config,     \* the configuration that was read, if there is one
    particles,
    checkpoint, \* the checkpoint file, if there is one
    intact,     \* nobody has edited a checkpoint
    vtk,        \* the last frame
    loaded,     \* the particles of a process that continues
    runs, edits

vars == <<phase, document, config, particles, checkpoint, intact, vtk, loaded, runs, edits>>

-----------------------------------------------------------------------------
(***************************************************************************)
(* Settings                                                                *)
(***************************************************************************)

\* The constructor of a thermostat and of a frame writer refuse what is negative;
\* the format "none" is in the schema only.
convertToOutputFormat(format) == format \in {"vtu", "xyz", "chkpt"}

InterceptorsConvert(interceptors, container) ==
    /\ \A w \in Range(interceptors.FrameWriter) :
         convertToOutputFormat(w.output_format) /\ w.fps >= 0 /\ w.video_length_s >= 0
    /\ \A t \in Range(interceptors.Thermostat) :
         t.target_temperature >= 0 /\ t.max_temperature_change >= 0
    /\ \A v \in Range(interceptors.VelocityProfile) :
         v.box = <<>> => container.linkedcells_container # <<>>

convertToBoundaryConditionsArray(b) ==
    <<b.left, b.right, b.bottom, b.top, b.back, b.front>>

SettingsConvert(settings) ==
    /\ InterceptorsConvert(settings.interceptors, settings.particle_container)
    /\ settings.end_time >= 0
    /\ settings.delta_t >= 0

-----------------------------------------------------------------------------
(***************************************************************************)
(* Spawners                                                                *)
(***************************************************************************)

Zero == [x |-> 0, y |-> 0, z |-> 0]
Plus(a, b) == [x |-> a.x + b.x, y |-> a.y + b.y, z |-> a.z + b.z]
Times(k, a) == [x |-> k * a.x, y |-> k * a.y, z |-> k * a.z]
NormSquared(a) == a.x * a.x + a.y * a.y + a.z * a.z

\* The places of a grid in the order of the loops: z is the innermost.
Places(dim) ==
    [n \in 1 .. dim.x * dim.y * dim.z |->
        [x |-> (n - 1) \div (dim.y * dim.z), y |-> ((n - 1) \div dim.z) % dim.y,
         z |-> (n - 1) % dim.z]]

\* The places from -r to r in every direction.
PlacesAround(r) ==
    LET w == 2 * r + 1
        all == Places([x |-> w, y |-> w, z |-> w])
    IN  [n \in DOMAIN all |-> Plus(all[n], [x |-> -r, y |-> -r, z |-> -r])]

\* The constructor of Particle.
NewParticle(x, source, locked) ==
    [x |-> x, v |-> source.velocity, f |-> Zero, old_f |-> Zero, m |-> source.mass,
     type |-> source.type, epsilon |-> source.epsilon, sigma |-> source.sigma,
     locked |-> locked, connected_particles |-> <<>>]

\* Mutant: particles without mass.
GridConvertsWithoutMass(c, third_dimension) ==
    /\ c.grid_dim.x > 0 /\ c.grid_dim.y > 0 /\ c.grid_dim.z > 0
    /\ c.grid_spacing > 0 /\ c.temperature >= 0
    /\ third_dimension \/ c.grid_dim.z <= 1

GridConverts(c, third_dimension) ==
    /\ c.grid_dim.x > 0 /\ c.grid_dim.y > 0 /\ c.grid_dim.z > 0
    /\ third_dimension \/ c.grid_dim.z <= 1
    /\ c.grid_spacing > 0
    /\ c.mass > 0
    /\ c.temperature >= 0

SphereConverts(s) == s.radius > 0 /\ s.grid_spacing > 0 /\ s.mass > 0 /\ s.temperature >= 0

SpawnCuboid(c, locked) ==
    LET places == Places(c.grid_dim) IN
    [n \in DOMAIN places |->
        NewParticle(Plus(c.lower_left_front_corner, Times(c.grid_spacing, places[n])), c, locked)]

SphereInPlaces(s, third_dimension) ==
    SelectSeq(PlacesAround(s.radius),
              LAMBDA p : /\ third_dimension \/ p.z = 0
                         /\ NormSquared(p) <= s.radius * s.radius)

SpawnSphere(s, third_dimension) ==
    LET places == SphereInPlaces(s, third_dimension) IN
    [n \in DOMAIN places |->
        NewParticle(Plus(s.center, Times(s.grid_spacing, places[n])), s, s.is_locked)]

\* A cuboid of one place, with any mass.
SpawnSingleParticle(p) == <<NewParticle(p.position, p, p.is_locked)>>

\* Mutant: y is the innermost loop.
PosToIndexTransposed(prev_size, dim, p) ==
    IF p.x \in 0 .. dim.x - 1 /\ p.y \in 0 .. dim.y - 1 /\ p.z \in 0 .. dim.z - 1
    THEN prev_size + p.y + dim.y * p.z + dim.z * dim.y * p.x + 1
    ELSE 0

\* particle_pos_to_index: the place in the vector, which begins with 1 here; 0 if
\* there is none.
PosToIndex(prev_size, dim, p) ==
    IF p.x \in 0 .. dim.x - 1 /\ p.y \in 0 .. dim.y - 1 /\ p.z \in 0 .. dim.z - 1
    THEN prev_size + p.z + dim.z * p.y + dim.z * dim.y * p.x + 1
    ELSE 0

\* The springs from a particle to those around it.  The rest length is squared.
Springs(all, prev_size, b, place) ==
    LET curr == PosToIndex(prev_size, b.grid_dim, place)
        around == SelectSeq(PlacesAround(1), LAMBDA d :
                    d # Zero /\ PosToIndex(prev_size, b.grid_dim, Plus(place, d)) # 0)
    IN  [n \in DOMAIN around |->
           LET neighbor == PosToIndex(prev_size, b.grid_dim, Plus(place, around[n])) IN
           [pointer_diff |-> neighbor - curr,
            rest_length |-> NormSquared(Plus(all[curr].x, Times(-1, all[neighbor].x))),
            spring_constant |-> b.spring_constant]]

\* The particles with those of a soft body behind them.
SpawnSoftBody(before, b) ==
    LET all == before \o SpawnCuboid(b, FALSE)
        places == Places(b.grid_dim)
        Curr(n) == PosToIndex(Len(before), b.grid_dim, places[n])
        mine(k) == SelectSeq([n \in DOMAIN places |-> n], LAMBDA n : Curr(n) = k)
    IN  [k \in DOMAIN all |->
           [all[k] EXCEPT !.connected_particles =
              @ \o FlattenSeq([i \in DOMAIN mine(k) |->
                                 Springs(all, Len(before), b, places[mine(k)[i]])])]]

-----------------------------------------------------------------------------
(***************************************************************************)
(* Checkpoints                                                             *)
(***************************************************************************)

\* Mutant: a particle comes back without its old force.
ParticleTypeWithoutOldForce(p) ==
    [position |-> p.x, velocity |-> p.v, force |-> p.f, old_force |-> p.f,
     mass |-> p.m, type |-> p.type, epsilon |-> p.epsilon, sigma |-> p.sigma,
     is_locked |-> p.locked,
     connected_particles |-> [entries |-> p.connected_particles]]

\* InternalToXSDTypeAdapter::convertToParticle.
ParticleTypeOf(p) ==
    [position |-> p.x, velocity |-> p.v, force |-> p.f, old_force |-> p.old_f,
     mass |-> p.m, type |-> p.type, epsilon |-> p.epsilon, sigma |-> p.sigma,
     is_locked |-> p.locked,
     connected_particles |-> [entries |-> p.connected_particles]]

ParticleDataOf(ps) == [particle |-> [n \in DOMAIN ps |-> ParticleTypeOf(ps[n])]]

\* The metadata matter to CheckpointRestart only.
CheckPointFileOf(ps, settings) ==
    [MetaData |-> [input_file |-> "input", input_file_hash |-> 0,
                   end_time |-> settings.end_time, delta_t |-> settings.delta_t,
                   current_iteration |-> 1],
     ParticleData |-> ParticleDataOf(ps)]

\* XSDToInternalTypeAdapter::convertToParticle.
convertToParticle(p) ==
    [x |-> p.position, v |-> p.velocity, f |-> p.force, old_f |-> p.old_force,
     m |-> p.mass, type |-> p.type, epsilon |-> p.epsilon, sigma |-> p.sigma,
     locked |-> p.is_locked, connected_particles |-> p.connected_particles.entries]

\* Mutant: a mass of zero is as good as any.
MassMissing(p) == p.mass < 0

MassInvalid(p) == p.mass <= 0

\* Mutant: a particle that is not valid is left out.
LoadValidParticles(file) ==
    LET result == Parse(file, ParseCheckPointFileType)
        data == SelectSeq(result.value.ParticleData.particle, LAMBDA p : ~MassInvalid(p))
    IN  IF ~result.ok THEN result ELSE Ok([n \in DOMAIN data |-> convertToParticle(data[n])])

\* loadCheckpointFile: the file is parsed without the validator.
LoadCheckpointFile(file) ==
    LET result == Parse(file, ParseCheckPointFileType)
        data == result.value.ParticleData.particle
    IN  IF ~result.ok THEN result
        ELSE IF \E p \in Range(data) : MassInvalid(p) THEN Throw("runtime_error")
        ELSE Ok([n \in DOMAIN data |-> convertToParticle(data[n])])

-----------------------------------------------------------------------------
(***************************************************************************)
(* The input file                                                          *)
(***************************************************************************)

HasOutflow(container) ==
    \E c \in Range(container.linkedcells_container) :
        "Outflow" \in Range(convertToBoundaryConditionsArray(c.boundary_conditions))

\* The conversions of prepareParticles that throw.
Converts(c) ==
    LET source == c.particle_source
        third_dimension == c.settings.third_dimension
    IN  /\ SettingsConvert(c.settings)
        /\ \A s \in Range(source.cuboid_spawner) \cup Range(source.soft_body_cuboid_spawner) :
             GridConverts(s, third_dimension)
        /\ source.soft_body_cuboid_spawner # <<>> =>
             ~HasOutflow(c.settings.particle_container)
        /\ \A s \in Range(source.sphere_spawner) : SphereConverts(s)
        /\ source.check_point_loader # <<>> =>
             checkpoint # <<>> /\ LoadCheckpointFile(checkpoint[1]).ok

\* The sources are taken kind by kind.
Spawned(c) ==
    LET source == c.particle_source
        cuboids == FlattenSeq([n \in DOMAIN source.cuboid_spawner |->
                     SpawnCuboid(source.cuboid_spawner[n], source.cuboid_spawner[n].is_locked)])
        bodies == FoldLeft(SpawnSoftBody, cuboids, source.soft_body_cuboid_spawner)
        spheres == FlattenSeq([n \in DOMAIN source.sphere_spawner |->
                     SpawnSphere(source.sphere_spawner[n], c.settings.third_dimension)])
        single == FlattenSeq([n \in DOMAIN source.single_particle_spawner |->
                     SpawnSingleParticle(source.single_particle_spawner[n])])
        stored == FlattenSeq([n \in DOMAIN source.check_point_loader |->
                     LoadCheckpointFile(checkpoint[1]).value])
    IN  bodies \o spheres \o single \o stored

-----------------------------------------------------------------------------
(***************************************************************************)
(* Frames                                                                  *)
(***************************************************************************)

\* The numbers of all particles, one after another.
Collect(ps, Numbers(_)) == FlattenSeq([n \in DOMAIN ps |-> Numbers(ps[n])])
Coordinates(a) == <<a.x, a.y, a.z>>

Array(t, name, components, values) ==
    [values |-> values, type |-> t, Name |-> name, NumberOfComponents |-> components,
     format |-> "ascii", offset |-> <<>>]

\* Mutant: the first two numbers of a vector only.
PlotPlane(ps) ==
    << Array("Float32", "mass", 1, Collect(ps, LAMBDA p : <<p.m>>)),
       Array("Float32", "velocity", 3, Collect(ps, LAMBDA p : Coordinates(p.v))),
       Array("Float32", "force", 3, Collect(ps, LAMBDA p : <<p.f.x, p.f.y>>)),
       Array("Int32", "type", 1, Collect(ps, LAMBDA p : <<p.type>>)) >>

\* plotParticle, for all particles.
Plot(ps) ==
    << Array("Float32", "mass", 1, Collect(ps, LAMBDA p : <<p.m>>)),
       Array("Float32", "velocity", 3, Collect(ps, LAMBDA p : Coordinates(p.v))),
       Array("Float32", "force", 3, Collect(ps, LAMBDA p : Coordinates(p.f))),
       Array("Int32", "type", 1, Collect(ps, LAMBDA p : <<p.type>>)) >>

\* initializeOutput: the arrays, a cell type for ParaView, and no cells.
VTKFileOf(ps) ==
    [UnstructuredGrid |->
       <<[Piece |->
            [PointData |-> [DataArray |-> Plot(ps)],
             CellData |-> [DataArray |-> <<>>],
             Points |-> [DataArray |->
                <<Array("Float32", "points", 3, Collect(ps, LAMBDA p : Coordinates(p.x)))>>],
             Cells |-> [DataArray |-> <<Array("Float32", "types", 0, <<>>)>>],
             NumberOfPoints |-> Len(ps), NumberOfCells |-> 0]]>>,
     PolyData |-> <<>>, type |-> "UnstructuredGrid", version |-> "0.1",
     byte_order |-> "LittleEndian"]

-----------------------------------------------------------------------------
(***************************************************************************)
(* Actions                                                                 *)
(***************************************************************************)

InputFileOf(c) == Serialize(c, "configuration", ParseConfigurationType)

Init ==
    /\ phase = "input"
    /\ document \in {InputFileOf(c) : c \in Configurations}
    /\ config = <<>> /\ particles = <<>> /\ loaded = <<>>
    /\ checkpoint = <<>> /\ intact = TRUE
    /\ vtk = <<>>
    /\ runs = 1
    /\ edits = 0

RECURSIVE Edited(_)

\* An element of a name that no type knows.
Foreign == Leaf("note", 0)

\* What a file can become if an element or an attribute is dropped or changed, an
\* element is written once more or moved, or a foreign one is put in.
Edited(node) ==
    IF node.leaf
    THEN IF node.name \in DOMAIN Texts
         THEN {[node EXCEPT !.content = t] : t \in Texts[node.name]} ELSE {}
    ELSE LET c == node.content
             a == node.attributes
             contents ==
               UNION {{RemoveAt(c, k), c \o <<c[k]>>, RemoveAt(c, k) \o <<c[k]>>}
                        \cup {[c EXCEPT ![k] = e] : e \in Edited(c[k])} : k \in DOMAIN c}
                 \cup {InsertAt(c, k, Foreign) : k \in 1 .. Len(c) + 1}
             attributes ==
               UNION {{[b \in DOMAIN a \ {name} |-> a[b]]}
                        \cup {[a EXCEPT ![name] = t] :
                                t \in IF name \in DOMAIN Texts THEN Texts[name] ELSE {}}
                        : name \in DOMAIN a}
         IN  {[node EXCEPT !.content = x] : x \in contents}
               \cup {[node EXCEPT !.attributes = x] : x \in attributes}

EditInput ==
    /\ phase = "input" /\ edits < MaxEdits
    /\ document' \in Edited(document)
    /\ edits' = edits + 1
    /\ UNCHANGED <<phase, config, particles, checkpoint, intact, vtk, loaded, runs>>

\* XMLFileReader::readFile, without the question for a checkpoint.
ReadFile ==
    /\ phase = "input"
    /\ LET result == Parse(document, ParseConfigurationType) IN
       IF /\ Valid(document, ParseConfigurationType)
          /\ result.ok
          /\ Converts(result.value)
       THEN /\ config' = <<result.value>>
            /\ particles' = Spawned(result.value)
            /\ phase' = "read"
       ELSE phase' = "refused" /\ UNCHANGED <<config, particles>>
    /\ UNCHANGED <<document, checkpoint, intact, vtk, loaded, runs, edits>>

\* An iteration: new forces, and the old ones kept.
Simulate ==
    /\ phase = "read"
    /\ particles' = [n \in DOMAIN particles |->
         [particles[n] EXCEPT !.old_f = particles[n].f,
                              !.f = Plus(@, [x |-> n, y |-> 1, z |-> 2])]]
    /\ phase' = "running"
    /\ UNCHANGED <<document, config, checkpoint, intact, vtk, loaded, runs, edits>>

\* A frame writer for checkpoints and one for VTU files.
WriteFiles ==
    /\ phase = "running"
    /\ checkpoint' = <<Serialize(CheckPointFileOf(particles, config[1].settings),
                                 "CheckPoint", ParseCheckPointFileType)>>
    /\ vtk' = <<VTKFileOf(particles)>>
    /\ phase' = "written"
    /\ UNCHANGED <<document, config, particles, intact, loaded, runs, edits>>

EditCheckpoint ==
    /\ phase = "written" /\ edits < MaxEdits
    /\ \E file \in Edited(checkpoint[1]) : checkpoint' = <<file>>
    /\ intact' = FALSE
    /\ edits' = edits + 1
    /\ UNCHANGED <<phase, document, config, particles, vtk, loaded, runs>>

\* A process that continues from the checkpoint.
LoadCheckpoint ==
    /\ phase = "written"
    /\ LET result == LoadCheckpointFile(checkpoint[1]) IN
       IF result.ok THEN loaded' = result.value /\ phase' = "continued"
       ELSE phase' = "unreadable" /\ UNCHANGED loaded
    /\ UNCHANGED <<document, config, particles, checkpoint, intact, vtk, runs, edits>>

\* Another input file is used.
NextInput ==
    /\ phase = "written" /\ runs < MaxRuns
    /\ \E c \in Configurations : document' = InputFileOf(c)
    /\ phase' = "input"
    /\ runs' = runs + 1
    /\ config' = <<>> /\ particles' = <<>>
    /\ UNCHANGED <<checkpoint, intact, vtk, loaded, edits>>

Next ==
    \/ EditInput
    \/ ReadFile
    \/ Simulate
    \/ WriteFiles
    \/ EditCheckpoint
    \/ LoadCheckpoint
    \/ NextInput

Spec == Init /\ [][Next]_vars

-----------------------------------------------------------------------------
(***************************************************************************)
(* Properties                                                              *)
(***************************************************************************)

Particle ==
    [x : DoubleVec3Type, v : DoubleVec3Type, f : DoubleVec3Type, old_f : DoubleVec3Type,
     m : Double, type : Integer, epsilon : Double, sigma : Double, locked : BOOLEAN,
     connected_particles : Seq(ConnectedParticleEntryType)]

\* Whatever was edited, what is read has the types of the classes, and a particle
\* of a checkpoint has a mass.
TypeOK ==
    /\ phase \in {"input", "read", "running", "written", "continued", "refused", "unreadable"}
    /\ config \in OptionalOf(ConfigurationType)
    /\ particles \in Seq(Particle)
    /\ loaded \in Seq(Particle) /\ \A p \in Range(loaded) : p.m > 0
    /\ vtk \in OptionalOf(VTU!VTKFile_t)
    /\ intact \in BOOLEAN
    /\ runs \in 1 .. MaxRuns /\ edits \in 0 .. MaxEdits

RECURSIVE SaysTheSame(_, _)

\* b has the attributes of a, and for every name the same elements in their order.
SaysTheSame(a, b) ==
    /\ a.name = b.name /\ a.leaf = b.leaf
    /\ a.leaf => a.content = b.content
    /\ \A name \in DOMAIN a.attributes : a.attributes[name] = b.attributes[name]
    /\ ~a.leaf =>
         \A name \in {e.name : e \in Range(a.content)} \cup {e.name : e \in Range(b.content)} :
            LET mine == SelectSeq(a.content, LAMBDA e : e.name = name)
                other == SelectSeq(b.content, LAMBDA e : e.name = name)
            IN  /\ Len(mine) = Len(other)
                /\ \A k \in DOMAIN mine : SaysTheSame(mine[k], other[k])

\* The parse functions end silently at an element they do not expect, but an input
\* file passes the validator first: whatever it says is in the configuration.
ValidIsReadCompletely ==
    config # <<>> => SaysTheSame(document, InputFileOf(config[1]))

\* A checkpoint is not validated.  If it is one that the schema accepts, whatever
\* it says of the particles is loaded all the same.  If it is another one, it may
\* be refused, but it may also lose particles without a word, which happens only
\* behind an element that is no particle.
CheckpointIsReadCompletely ==
    phase = "continued" =>
        \E data \in Range(checkpoint[1].content) :
            /\ data.name = "ParticleData"
            /\ Valid(checkpoint[1], ParseCheckPointFileType) =>
                 SaysTheSame(data, Serialize(ParticleDataOf(loaded), "ParticleData",
                                             ParseParticleDataType))
            /\ Len(loaded) < Occurrences(data.content, "particle") =>
                 data.content[Len(loaded) + 1].name # "particle"

\* A process that continues has the particles the checkpoint was written of, with
\* both forces and their springs.
CheckpointGivesParticlesBack == (phase = "continued" /\ intact) => loaded = particles

\* A checkpoint nobody edited can be read again, unless a particle without mass
\* came from a single particle spawner, which is the only source that is not
\* checked.
AcceptedIsReloadable ==
    (phase = "unreadable" /\ intact) =>
        \E p \in Range(config[1].particle_source.single_particle_spawner) : p.mass <= 0

\* A spring of a soft body has two ends with one length and one constant, and so
\* after a checkpoint, wherever in the vector its particles are then.  It is as
\* long as its particles are apart, and these are next to each other in the grid.
Mutual(ps) ==
    \A n \in DOMAIN ps : \A s \in Range(ps[n].connected_particles) :
        /\ n + s.pointer_diff \in DOMAIN ps \ {n}
        /\ [s EXCEPT !.pointer_diff = -s.pointer_diff]
             \in Range(ps[n + s.pointer_diff].connected_particles)

SpringsAreMutual ==
    intact =>
      /\ Mutual(particles)
      /\ Mutual(loaded)
      /\ phase = "read" =>
         \A n \in DOMAIN particles : \A s \in Range(particles[n].connected_particles) :
            /\ s.rest_length = NormSquared(Plus(particles[n].x,
                                                Times(-1, particles[n + s.pointer_diff].x)))
            /\ config[1].particle_source.check_point_loader # <<>> \/
                 \E b \in Range(config[1].particle_source.soft_body_cuboid_spawner) :
                   s.rest_length <= 3 * b.grid_spacing * b.grid_spacing

\* Every array of a frame has the number of values the frame announces, and the
\* forces are those of the checkpoint of the same iteration, particle by particle.
FrameShowsTheCheckpoint ==
    (phase = "written" /\ intact) =>
        LET piece == vtk[1].UnstructuredGrid[1].Piece
            stored == Parse(checkpoint[1], ParseCheckPointFileType)
                        .value.ParticleData.particle
            force == piece.PointData.DataArray[3].values
        IN  /\ piece.NumberOfPoints = Len(stored)
            /\ \A a \in Range(piece.PointData.DataArray \o piece.Points.DataArray) :
                 Len(a.values) = piece.NumberOfPoints * a.NumberOfComponents
            /\ \A n \in DOMAIN stored :
                 SubSeq(force, 3 * n - 2, 3 * n) = Coordinates(stored[n].force)

=============================================================================
