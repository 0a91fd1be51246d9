-------------------------- MODULE MCSimulationInput ---------------------------
(***************************************************************************)
(* Five input files that use every element of the schema between them,     *)
(* except for sub simulations.                                             *)
(***************************************************************************)
EXTENDS SimulationInput

At(x, y, z) == [x |-> x, y |-> y, z |-> z]

Cuboid(corner, dim, locked) ==
    [lower_left_front_corner |-> corner, grid_dim |-> dim, grid_spacing |-> 1,
     temperature |-> 0, mass |-> 1, velocity |-> At(0, 1, 0), type |-> 0, epsilon |-> 1,
     sigma |-> 1, is_locked |-> locked]
SoftBody(corner, dim) ==
    [lower_left_front_corner |-> corner, grid_dim |-> dim, grid_spacing |-> 2,
     temperature |-> 0, mass |-> 3, velocity |-> At(0, 0, 0), type |-> 1,
     spring_constant |-> 30, epsilon |-> 1, sigma |-> 2]
Sphere(center) ==
    [center |-> center, radius |-> 1, grid_spacing |-> 2, temperature |-> 0, mass |-> 1,
     velocity |-> At(1, 0, 0), type |-> 2, epsilon |-> 1, sigma |-> 1, is_locked |-> FALSE]
Single(position, mass) ==
    [position |-> position, temperature |-> 0, mass |-> mass, velocity |-> At(0, 0, 1),
     type |-> 3, epsilon |-> 1, sigma |-> 1, is_locked |-> TRUE]

NoSource ==
    [cuboid_spawner |-> <<>>, soft_body_cuboid_spawner |-> <<>>, sphere_spawner |-> <<>>,
     single_particle_spawner |-> <<>>, check_point_loader |-> <<>>, sub_simulation |-> <<>>]
NoForce ==
    [TargettedTemporaryConstant |-> <<>>, LennardJones |-> <<>>,
     LennardJonesRepulsive |-> <<>>, SmoothedLennardJones |-> <<>>, Gravitational |-> <<>>,
     GlobalDownwardsGravity |-> <<>>, HarmonicPotential |-> <<>>]
NoInterceptor ==
    [ParticleUpdatesPerSecond |-> <<>>, DiffusionFunction |-> <<>>,
     RadialDistributionFunction |-> <<>>, VelocityProfile |-> <<>>, FrameWriter |-> <<>>,
     Thermostat |-> <<>>]
Writer(format) == [output_format |-> format, fps |-> 1, video_length_s |-> 2]
Sensor == [sample_every_x_percent |-> 5]

DirectSum == [directsum_container |-> <<<<>>>>, linkedcells_container |-> <<>>]
LinkedCells(type) ==
    [directsum_container |-> <<>>,
     linkedcells_container |->
       <<[domain_size |-> At(9, 9, 9), cutoff_radius |-> 3,
          boundary_conditions |->
            [left |-> "Periodic", right |-> "Periodic", bottom |-> "Reflective",
             top |-> "Reflective", back |-> "Reflective", front |-> type]]>>]

Configuration(container, three, forces, interceptors, source) ==
    [settings |->
       [delta_t |-> 1, end_time |-> 5, third_dimension |-> three,
        particle_container |-> container, forces |-> forces, interceptors |-> interceptors,
        log_level |-> <<>>],
     particle_source |-> source]

MCConfigurations ==
    { Configuration(DirectSum, FALSE,
        [NoForce EXCEPT !.LennardJones = <<<<>>>>],
        [NoInterceptor EXCEPT !.FrameWriter = <<Writer("chkpt"), Writer("vtu")>>],
        [NoSource EXCEPT !.cuboid_spawner = <<Cuboid(At(1, 1, 0), At(2, 1, 1), TRUE)>>,
                         !.sphere_spawner = <<Sphere(At(5, 5, 1))>>]),
      Configuration(LinkedCells("Reflective"), TRUE,
        [NoForce EXCEPT !.GlobalDownwardsGravity = <<[g |-> -1]>>,
                        !.HarmonicPotential = <<<<>>>>, !.LennardJonesRepulsive = <<<<>>>>,
                        !.TargettedTemporaryConstant =
                          <<[force |-> At(0, 0, 1), indices |-> <<1, 2>>,
                             start_time |-> 0, end_time |-> 3]>>],
        [NoInterceptor EXCEPT
           !.FrameWriter = <<Writer("chkpt")>>,
           !.Thermostat = <<[temperature_sensor |-> <<Sensor>>, target_temperature |-> 1,
                             max_temperature_change |-> 1, application_interval |-> 2,
                             type |-> "absolute"]>>],
        [NoSource EXCEPT !.cuboid_spawner = <<Cuboid(At(1, 1, 1), At(1, 1, 1), FALSE)>>,
                         !.soft_body_cuboid_spawner = <<SoftBody(At(2, 2, 2), At(1, 3, 2))>>]),
      Configuration(DirectSum, TRUE,
        [NoForce EXCEPT !.Gravitational = <<<<>>>>],
        [NoInterceptor EXCEPT
           !.VelocityProfile = <<[box |-> <<[lower_left_front_corner |-> At(0, 0, 0),
                                             upper_right_back_corner |-> At(9, 9, 9)]>>,
                                  num_bins |-> 3, sample_every_x_percent |-> 5]>>,
           !.ParticleUpdatesPerSecond = <<<<>>>>],
        [NoSource EXCEPT !.single_particle_spawner = <<Single(At(1, 2, 3), 0),
                                                       Single(At(3, 2, 1), 1)>>]),
      Configuration(LinkedCells("Outflow"), FALSE,
        [NoForce EXCEPT !.SmoothedLennardJones = <<[r_c |-> 3, r_l |-> 2]>>],
        [NoInterceptor EXCEPT
           !.DiffusionFunction = <<Sensor>>,
           !.RadialDistributionFunction = <<[bin_width |-> 1, sample_every_x_percent |-> 5]>>],
        [NoSource EXCEPT !.cuboid_spawner = <<Cuboid(At(1, 1, 1), At(1, 1, 1), FALSE)>>,
                         !.check_point_loader = <<[path |-> "MD_CHKPT.chkpt"]>>]),
      Configuration(LinkedCells("Outflow"), FALSE, NoForce, NoInterceptor,
        [NoSource EXCEPT !.soft_body_cuboid_spawner = <<SoftBody(At(2, 2, 2), At(1, 2, 1))>>]) }

\* What an edit writes: zeros, negative numbers, a second layer, the other names.
MCTexts ==
    [mass |-> {-1, 0}, grid_spacing |-> {0}, temperature |-> {-1}, radius |-> {0},
     z |-> {0, 2}, third_dimension |-> {TRUE, FALSE}, end_time |-> {-1, 0}, delta_t |-> {-1, 0},
     fps |-> {-1}, video_length_s |-> {-1}, output_format |-> {"none", "gif"},
     target_temperature |-> {-1}, max_temperature_change |-> {-1}, front |-> {"Outflow", "Open"}]

=============================================================================
