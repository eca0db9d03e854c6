------------------------------ MODULE MCStartup -------------------------------
(***************************************************************************)
(* Model-checking instance of Startup: every configuration of an Anywhere  *)
(* fleet with a process launcher, every launcher with a managed fleet.     *)
(***************************************************************************)
EXTENDS Startup, TLC

Symmetry == Permutations(Wrapper)

Managed == [form |-> "empty", region |-> NoRegion]

AnywhereSettings ==
    {c \in Configuration : c.launcher = "process" /\ c.containers = "none"
                           /\ (c.provider # "aws-profile" => c.profile)}

LauncherSettings ==
    {c \in Configuration : /\ c.location = Managed /\ c.fleet = Managed /\ ~c.ipv4
                           /\ ~c.computeName /\ ~c.endpoint /\ ~c.authToken
                           /\ c.provider = "other" /\ ~c.profile}

MCSettings == AnywhereSettings \union LauncherSettings
===============================================================================
