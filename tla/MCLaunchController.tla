------------------------ MODULE MCLaunchController ------------------------
(* An instance of LaunchController: see MCLaunchController.cfg.            *)
EXTENDS LaunchController
=============================================================================
