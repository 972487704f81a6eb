------------------------------- MODULE MCHost -------------------------------
(***************************************************************************)
(* The host as a program, for TLC: its life and that of the controllers,   *)
(* its clients and its input, the heaters it watches over, its settings    *)
(* and its updates; and the loop of trdispatch.c. No part shares state     *)
(* with another in these models: a behaviour picks one and runs it, while  *)
(* the variables of the others keep their first values. The reachable      *)
(* states are those of the parts, one after the other, and never a product *)
(* of two of them.                                                         *)
(***************************************************************************)
EXTENDS Lifecycle, GCodeInput, Webhooks, SaveConfig, KernelUpdate, Install,
        TriggerLoop

TLC == INSTANCE TLC

\* The configurations of the printer differ in nothing but their name, nor do
\* the clients.
NameSymmetry == TLC!Permutations(Configs) \cup TLC!Permutations(Watchers)

\* The packages in the order of flashforge_init.sh, which does the kernel and
\* the library with the same commands as control, without a program to copy.
UpdateOrder == <<"control", "software">>

VARIABLE part   \* the part a behaviour runs

Parts == {"life", "input", "web", "config", "kernel", "install", "loop"}

\* Parts that begin in several ways begin in one of them when another is run.
HostInit ==
  /\ part \in Parts
  /\ LifeInit /\ InputInit /\ WebInit /\ ConfigInit /\ OtaInit /\
     InstallInit /\ LoopInit
  /\ part # "life" => /\ mcu_config = [m \in Mcus |-> Unset]
                      /\ mcu_down = [m \in Mcus |-> FALSE]
  /\ part # "config" => cfg_file.regular = [opt \in Options |-> 0]
  /\ part # "loop" => status = [m \in Mcu |-> 0]

\* The other parts rest.
OthersRest ==
  /\ UNCHANGED part
  /\ part # "life" => UNCHANGED lifeVars
  /\ part # "input" => UNCHANGED inputVars
  /\ part # "web" => UNCHANGED webVars
  /\ part # "config" => UNCHANGED configVars
  /\ part # "kernel" => UNCHANGED otaVars
  /\ part # "install" => UNCHANGED installVars
  /\ part # "loop" => UNCHANGED vars

HostNext ==
  \/ part = "life" /\ LifeNext /\ OthersRest
  \/ part = "input" /\ InputNext /\ OthersRest
  \/ part = "web" /\ WebNext /\ OthersRest
  \/ part = "config" /\ ConfigNext /\ OthersRest
  \/ part = "kernel" /\ OtaNext /\ OthersRest
  \/ part = "install" /\ InstallNext /\ OthersRest
  \/ part = "loop" /\ Step /\ OthersRest

HostVars ==
  <<part, lifeVars, inputVars, webVars, configVars, otaVars, installVars,
    vars>>

HostSpec == HostInit /\ [][HostNext]_HostVars

-----------------------------------------------------------------------------
(* Properties of parts that belong together.                               *)

\* Wherever the power fails, saved settings are kept, the partitions that are
\* started next are whole, and so are the packages and the program - but for
\* the exceptions that BootsWhole, NewIsVerified and RunsWhole name: images a
\* file leaves out, the moment between rm -rf and mv of an update, and files
\* that are written in place. The next update that is through repairs those.
Survives == UpdateSound /\ InstallSound /\ SettingsSound
=============================================================================
