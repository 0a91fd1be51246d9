------------------------ MODULE SimulationInputSchema -------------------------
(***************************************************************************)
(* The classes generated from the schema of an input file: the objects     *)
(* of a class, as records of its elements and attributes, and the          *)
(* elements and attributes its function parse looks for.                   *)
(***************************************************************************)
EXTENDS XMLTree

-----------------------------------------------------------------------------
\* Vectors and containers

DirectSumContainerType == {<<>>}

ParseDirectSumContainerType == Complex("sequence", <<>>, <<>>)

DoubleVec3Type == [x : Double, y : Double, z : Double]

ParseDoubleVec3Type ==
    Complex("sequence",
        <<One("x", Text), One("y", Text), One("z", Text)>>,
        <<>>)

BoundaryType == {"Outflow", "Reflective", "Periodic"}
ParseBoundaryType == Enumeration(BoundaryType)

BoundaryConditionsType ==
    [left : BoundaryType, right : BoundaryType, bottom : BoundaryType,
     top : BoundaryType, back : BoundaryType, front : BoundaryType]

ParseBoundaryConditionsType ==
    Complex("sequence",
        <<One("left", ParseBoundaryType), One("right", ParseBoundaryType),
          One("bottom", ParseBoundaryType), One("top", ParseBoundaryType),
          One("back", ParseBoundaryType), One("front", ParseBoundaryType)>>,
        <<>>)

LinkedCellsContainerType ==
    [domain_size : DoubleVec3Type, cutoff_radius : Double,
     boundary_conditions : BoundaryConditionsType]

ParseLinkedCellsContainerType ==
    Complex("sequence",
        <<One("domain_size", ParseDoubleVec3Type), One("cutoff_radius", Text),
          One("boundary_conditions", ParseBoundaryConditionsType)>>,
        <<>>)

ParticleContainerType ==
    [directsum_container : OptionalOf(DirectSumContainerType),
     linkedcells_container : OptionalOf(LinkedCellsContainerType)]

ParseParticleContainerType ==
    Complex("choice",
        <<Optional("directsum_container", ParseDirectSumContainerType),
          Optional("linkedcells_container", ParseLinkedCellsContainerType)>>,
        <<>>)

-----------------------------------------------------------------------------
\* Forces

IntegerListType == Seq(Integer)

TargettedTemporaryConstantType ==
    [force : DoubleVec3Type, indices : IntegerListType, start_time : Double,
     end_time : Double]

ParseTargettedTemporaryConstantType ==
    Complex("sequence",
        <<One("force", ParseDoubleVec3Type)>>,
        <<Required("indices", Text), Required("start_time", Text),
          Required("end_time", Text)>>)

LennardJonesType == {<<>>}

ParseLennardJonesType == Complex("sequence", <<>>, <<>>)

LennardJonesRepulsiveType == {<<>>}

ParseLennardJonesRepulsiveType == Complex("sequence", <<>>, <<>>)

SmoothedLennardJonesType == [r_c : Double, r_l : Double]

ParseSmoothedLennardJonesType ==
    Complex("sequence",
        <<>>,
        <<Required("r_c", Text), Required("r_l", Text)>>)

GravitationalType == {<<>>}

ParseGravitationalType == Complex("sequence", <<>>, <<>>)

GlobalGravityType == [g : Double]

ParseGlobalGravityType == Complex("sequence", <<>>, <<Required("g", Text)>>)

HarmonicPotentialType == {<<>>}

ParseHarmonicPotentialType == Complex("sequence", <<>>, <<>>)

ForcesType ==
    [TargettedTemporaryConstant : OptionalOf(TargettedTemporaryConstantType),
     LennardJones : OptionalOf(LennardJonesType),
     LennardJonesRepulsive : OptionalOf(LennardJonesRepulsiveType),
     SmoothedLennardJones : OptionalOf(SmoothedLennardJonesType),
     Gravitational : OptionalOf(GravitationalType),
     GlobalDownwardsGravity : OptionalOf(GlobalGravityType),
     HarmonicPotential : OptionalOf(HarmonicPotentialType)]

ParseForcesType ==
    Complex("any",
        <<Optional("TargettedTemporaryConstant", ParseTargettedTemporaryConstantType),
          Optional("LennardJones", ParseLennardJonesType),
          Optional("LennardJonesRepulsive", ParseLennardJonesRepulsiveType),
          Optional("SmoothedLennardJones", ParseSmoothedLennardJonesType),
          Optional("Gravitational", ParseGravitationalType),
          Optional("GlobalDownwardsGravity", ParseGlobalGravityType),
          Optional("HarmonicPotential", ParseHarmonicPotentialType)>>,
        <<>>)

-----------------------------------------------------------------------------
\* Interceptors

ParticleUpdatesPerSecondInterceptionType == {<<>>}

ParseParticleUpdatesPerSecondInterceptionType == Complex("sequence", <<>>, <<>>)

DiffusionFunctionInterceptorType == [sample_every_x_percent : Double]

ParseDiffusionFunctionInterceptorType ==
    Complex("sequence",
        <<>>,
        <<Required("sample_every_x_percent", Text)>>)

RadialDistributionFunctionInterceptionType ==
    [bin_width : Double, sample_every_x_percent : Double]

ParseRadialDistributionFunctionInterceptionType ==
    Complex("sequence",
        <<>>,
        <<Required("bin_width", Text), Required("sample_every_x_percent", Text)>>)

ThreeDRegionType ==
    [lower_left_front_corner : DoubleVec3Type, upper_right_back_corner : DoubleVec3Type]

ParseThreeDRegionType ==
    Complex("sequence",
        <<One("lower_left_front_corner", ParseDoubleVec3Type),
          One("upper_right_back_corner", ParseDoubleVec3Type)>>,
        <<>>)

VelocityProfileInterceptionType ==
    [box : OptionalOf(ThreeDRegionType), num_bins : Integer,
     sample_every_x_percent : Double]

ParseVelocityProfileInterceptionType ==
    Complex("sequence",
        <<Optional("box", ParseThreeDRegionType)>>,
        <<Required("num_bins", Text), Required("sample_every_x_percent", Text)>>)

OutputFormatType == {"vtu", "chkpt", "xyz", "none"}
ParseOutputFormatType == Enumeration(OutputFormatType)

FrameWriterInterceptorType ==
    [output_format : OutputFormatType, fps : Integer, video_length_s : Integer]

ParseFrameWriterInterceptorType ==
    Complex("sequence",
        <<>>,
        <<Required("output_format", ParseOutputFormatType), Required("fps", Text),
          Required("video_length_s", Text)>>)

TemperatureSensorInterceptorType == [sample_every_x_percent : Double]

ParseTemperatureSensorInterceptorType ==
    Complex("sequence",
        <<>>,
        <<Required("sample_every_x_percent", Text)>>)

ThermostatType == {"absolute", "relative_motion"}
ParseThermostatType == Enumeration(ThermostatType)

ThermostatInterceptorType ==
    [temperature_sensor : OptionalOf(TemperatureSensorInterceptorType),
     target_temperature : Double, max_temperature_change : Double,
     application_interval : Integer, type : ThermostatType]

ParseThermostatInterceptorType ==
    Complex("sequence",
        <<Optional("temperature_sensor", ParseTemperatureSensorInterceptorType)>>,
        <<Required("target_temperature", Text), Required("max_temperature_change", Text),
          Required("application_interval", Text), Required("type", ParseThermostatType)>>)

SimulationInterceptorsType ==
    [ParticleUpdatesPerSecond : Seq(ParticleUpdatesPerSecondInterceptionType),
     DiffusionFunction : Seq(DiffusionFunctionInterceptorType),
     RadialDistributionFunction : Seq(RadialDistributionFunctionInterceptionType),
     VelocityProfile : Seq(VelocityProfileInterceptionType),
     FrameWriter : Seq(FrameWriterInterceptorType),
     Thermostat : Seq(ThermostatInterceptorType)]

ParseSimulationInterceptorsType ==
    Complex("any",
        <<
          Many("ParticleUpdatesPerSecond", ParseParticleUpdatesPerSecondInterceptionType),
          Many("DiffusionFunction", ParseDiffusionFunctionInterceptorType),
          Many("RadialDistributionFunction", ParseRadialDistributionFunctionInterceptionType),
          Many("VelocityProfile", ParseVelocityProfileInterceptionType),
          Many("FrameWriter", ParseFrameWriterInterceptorType),
          Many("Thermostat", ParseThermostatInterceptorType)>>,
        <<>>)

LogLevelType == {"off", "critical", "error", "warning", "info", "debug"}
ParseLogLevelType == Enumeration(LogLevelType)

SettingsType ==
    [delta_t : Double, end_time : Double, third_dimension : BOOLEAN,
     particle_container : ParticleContainerType, forces : ForcesType,
     interceptors : SimulationInterceptorsType, log_level : OptionalOf(LogLevelType)]

ParseSettingsType ==
    Complex("sequence",
        <<One("delta_t", Text), One("end_time", Text), One("third_dimension", Text),
          One("particle_container", ParseParticleContainerType),
          One("forces", ParseForcesType),
          One("interceptors", ParseSimulationInterceptorsType),
          Optional("log_level", ParseLogLevelType)>>,
        <<>>)

IntVec3Type == [x : Integer, y : Integer, z : Integer]

ParseIntVec3Type ==
    Complex("sequence",
        <<One("x", Text), One("y", Text), One("z", Text)>>,
        <<>>)

-----------------------------------------------------------------------------
\* Particle sources

CuboidSpawnerType ==
    [lower_left_front_corner : DoubleVec3Type, grid_dim : IntVec3Type,
     grid_spacing : Double, temperature : Double, mass : Double,
     velocity : DoubleVec3Type, type : Integer, epsilon : Double, sigma : Double,
     is_locked : BOOLEAN]

ParseCuboidSpawnerType ==
    Complex("sequence",
        <<One("lower_left_front_corner", ParseDoubleVec3Type),
          One("grid_dim", ParseIntVec3Type), One("grid_spacing", Text),
          One("temperature", Text), One("mass", Text),
          One("velocity", ParseDoubleVec3Type), One("type", Text), One("epsilon", Text),
          One("sigma", Text)>>,
        <<Default("is_locked", FALSE)>>)

SoftBodySpawnerType ==
    [lower_left_front_corner : DoubleVec3Type, grid_dim : IntVec3Type,
     grid_spacing : Double, temperature : Double, mass : Double,
     velocity : DoubleVec3Type, type : Integer, spring_constant : Double,
     epsilon : Double, sigma : Double]

ParseSoftBodySpawnerType ==
    Complex("sequence",
        <<One("lower_left_front_corner", ParseDoubleVec3Type),
          One("grid_dim", ParseIntVec3Type), One("grid_spacing", Text),
          One("temperature", Text), One("mass", Text),
          One("velocity", ParseDoubleVec3Type), One("type", Text),
          One("spring_constant", Text), One("epsilon", Text), One("sigma", Text)>>,
        <<>>)

SphereSpawnerType ==
    [center : DoubleVec3Type, radius : Integer, grid_spacing : Double,
     temperature : Double, mass : Double, velocity : DoubleVec3Type, type : Integer,
     epsilon : Double, sigma : Double, is_locked : BOOLEAN]

ParseSphereSpawnerType ==
    Complex("sequence",
        <<One("center", ParseDoubleVec3Type), One("radius", Text),
          One("grid_spacing", Text), One("temperature", Text), One("mass", Text),
          One("velocity", ParseDoubleVec3Type), One("type", Text), One("epsilon", Text),
          One("sigma", Text)>>,
        <<Default("is_locked", FALSE)>>)

SingleParticleSpawnerType ==
    [position : DoubleVec3Type, temperature : Double, mass : Double,
     velocity : DoubleVec3Type, type : Integer, epsilon : Double, sigma : Double,
     is_locked : BOOLEAN]

ParseSingleParticleSpawnerType ==
    Complex("sequence",
        <<One("position", ParseDoubleVec3Type), One("temperature", Text),
          One("mass", Text), One("velocity", ParseDoubleVec3Type), One("type", Text),
          One("epsilon", Text), One("sigma", Text)>>,
        <<Default("is_locked", FALSE)>>)

CheckPointLoaderType == [path : STRING]

ParseCheckPointLoaderType == Complex("sequence", <<>>, <<Required("path", Text)>>)

SubSimulationType == [path : STRING]

ParseSubSimulationType == Complex("sequence", <<>>, <<Required("path", Text)>>)

ParticleSourceType ==
    [cuboid_spawner : Seq(CuboidSpawnerType),
     soft_body_cuboid_spawner : Seq(SoftBodySpawnerType),
     sphere_spawner : Seq(SphereSpawnerType),
     single_particle_spawner : Seq(SingleParticleSpawnerType),
     check_point_loader : Seq(CheckPointLoaderType),
     sub_simulation : Seq(SubSimulationType)]

ParseParticleSourceType ==
    Complex("any",
        <<Many("cuboid_spawner", ParseCuboidSpawnerType),
          Many("soft_body_cuboid_spawner", ParseSoftBodySpawnerType),
          Many("sphere_spawner", ParseSphereSpawnerType),
          Many("single_particle_spawner", ParseSingleParticleSpawnerType),
          Many("check_point_loader", ParseCheckPointLoaderType),
          Many("sub_simulation", ParseSubSimulationType)>>,
        <<>>)

ConfigurationType == [settings : SettingsType, particle_source : ParticleSourceType]

ParseConfigurationType ==
    Complex("sequence",
        <<One("settings", ParseSettingsType),
          One("particle_source", ParseParticleSourceType)>>,
        <<>>)

=============================================================================
