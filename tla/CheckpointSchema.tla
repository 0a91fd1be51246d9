-------------------------- MODULE CheckpointSchema ----------------------------
(***************************************************************************)
(* The classes generated from the schema of a checkpoint file, as in       *)
(* SimulationInputSchema.                                                  *)
(***************************************************************************)
EXTENDS SimulationInputSchema

MetaDataDataType ==
    [input_file : STRING, input_file_hash : UnsignedLong, end_time : Double,
     delta_t : Double, current_iteration : UnsignedLong]

ParseMetaDataDataType ==
    Complex("sequence",
        <<One("input_file", Text), One("input_file_hash", Text), One("end_time", Text),
          One("delta_t", Text), One("current_iteration", Text)>>,
        <<>>)

ConnectedParticleEntryType ==
    [pointer_diff : Integer, rest_length : Double, spring_constant : Double]

ParseConnectedParticleEntryType ==
    Complex("sequence",
        <<One("pointer_diff", Text), One("rest_length", Text),
          One("spring_constant", Text)>>,
        <<>>)

ConnectedParticlesType == [entries : Seq(ConnectedParticleEntryType)]

ParseConnectedParticlesType ==
    Complex("sequence",
        <<Many("entries", ParseConnectedParticleEntryType)>>,
        <<>>)

ParticleType ==
    [position : DoubleVec3Type, velocity : DoubleVec3Type, force : DoubleVec3Type,
     old_force : DoubleVec3Type, mass : Double, type : Integer, epsilon : Double,
     sigma : Double, is_locked : BOOLEAN, connected_particles : ConnectedParticlesType]

ParseParticleType ==
    Complex("sequence",
        <<One("position", ParseDoubleVec3Type), One("velocity", ParseDoubleVec3Type),
          One("force", ParseDoubleVec3Type), One("old_force", ParseDoubleVec3Type),
          One("mass", Text), One("type", Text), One("epsilon", Text), One("sigma", Text),
          One("is_locked", Text), One("connected_particles", ParseConnectedParticlesType)>>,
        <<>>)

ParticleDataType == [particle : Seq(ParticleType)]

ParseParticleDataType == Complex("sequence", <<Many("particle", ParseParticleType)>>, <<>>)

CheckPointFileType == [MetaData : MetaDataDataType, ParticleData : ParticleDataType]

ParseCheckPointFileType ==
    Complex("sequence",
        <<One("MetaData", ParseMetaDataDataType),
          One("ParticleData", ParseParticleDataType)>>,
        <<>>)

=============================================================================
