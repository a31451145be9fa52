------------------------------ MODULE BootGuard ------------------------------
(***************************************************************************)
(* Booting with the module installed: post-fs-data.sh inserts the first    *)
(* module file that fits the kernel, with a marker file around it.  A boot *)
(* that finds the marker of an earlier one disables the module instead.    *)
(* The machine may go down at any point, with file changes that have not   *)
(* reached the disk: the script does not sync.  insmod is rkx_init of      *)
(* ModuleLifecycle, which runs meanwhile, and whose specification this     *)
(* one implements.                                                         *)
(***************************************************************************)
EXTENDS ModuleLifecycle

CONSTANT Files   \* the number of rekernel_x-*.ko files

ASSUME FilesAssumption == Files \in Nat \ {0}

VARIABLES
  pc,        \* the script: its next command, "done", or "off" when the machine is
  mod,       \* which module file the loop is at
  dir,       \* the files ".boot" and "disable" as the script sees them
  disk,      \* those that have reached the disk
  cut,       \* the last boot went down inserting, with the marker on disk
  clean      \* every boot so far went down with its script ended and synced

bootVars == <<pc, mod, dir, disk, cut, clean>>
allVars == <<vars, bootVars>>

Idle == UNCHANGED vars
Kept == UNCHANGED <<disk, cut, clean>>

\* The manager runs the script of a module that is not disabled.
Boot ==
  /\ pc = "off" /\ Idle
  /\ pc' = IF "disable" \in dir THEN "done" ELSE "test"
  /\ UNCHANGED <<mod, dir>> /\ Kept

\* Faulty: a marker that is there already is made again.
TestSkipped ==
  /\ pc = "test" /\ Idle
  /\ pc' = "touch_boot"
  /\ UNCHANGED <<mod, dir>> /\ Kept

TestMarker ==
  /\ pc = "test" /\ Idle
  /\ pc' = IF ".boot" \in dir THEN "touch_disable" ELSE "touch_boot"
  /\ UNCHANGED <<mod, dir>> /\ Kept

\* The commands that change a file: where, how, and what comes next.
Command(at, dir2, next) ==
  /\ pc = at /\ Idle
  /\ dir' = dir2 /\ pc' = next
  /\ UNCHANGED mod /\ Kept

TouchDisable == Command("touch_disable", dir \cup {"disable"}, "rm_boot")
TouchBoot == Command("touch_boot", dir \cup {".boot"}, "insmod")

\* Faulty: the marker is left.
MarkerStays == Command("rm_boot", dir, "done")

\* Both branches end with it.
RmBoot == Command("rm_boot", dir \ {".boot"}, "done")

\* The next module file, or the end of the loop.
NextFile == /\ pc' = IF mod < Files THEN "insmod" ELSE "rm_boot"
            /\ mod' = IF mod < Files THEN mod + 1 ELSE 1

\* The kernel refuses a file built for another version ...
InsmodRefused ==
  /\ pc = "insmod" /\ Idle
  /\ NextFile
  /\ UNCHANGED dir /\ Kept

\* ... or runs rkx_init, and insmod returns what it returned.
Insmod ==
  /\ pc = "insmod" /\ InitTables
  /\ pc' = "inserting"
  /\ UNCHANGED <<mod, dir>> /\ Kept

InsmodReturns ==
  /\ pc = "inserting" /\ phase \in {"live", "out"} /\ Idle
  /\ IF phase = "live" THEN pc' = "rm_boot" /\ mod' = 1 ELSE NextFile
  /\ UNCHANGED dir /\ Kept

-----------------------------------------------------------------------------

\* The module runs, and rmmod may remove it once the script has gone on.
ModuleStep ==
  /\ pc # "off"
  /\ \/ Initialise \/ Unwind
     \/ rkx_exit /\ pc # "inserting"
     \/ \E c \in Cpu : Run(c) \/ \E h \in hooked : Enter(c, h)
  /\ UNCHANGED bootVars

\* The file system writes back what has changed.
Sync ==
  /\ disk # dir /\ disk' = dir
  /\ Idle /\ UNCHANGED <<pc, mod, dir, cut, clean>>

\* The user enables the module again, in the manager.
Enable ==
  /\ pc = "done" /\ "disable" \in dir
  /\ dir' = dir \ {"disable"}
  /\ Idle /\ UNCHANGED <<pc, mod>> /\ Kept

\* A panic, a watchdog, a power cut or an orderly reboot.
GoDown ==
  /\ pc # "off" /\ Restart
  /\ pc' = "off" /\ mod' = 1 /\ dir' = disk
  /\ cut' = (pc = "inserting" /\ ".boot" \in disk)
  /\ clean' = (clean /\ pc = "done" /\ disk = dir)
  /\ UNCHANGED disk

BootInit ==
  /\ Init
  /\ pc = "off" /\ mod = 1 /\ dir = {} /\ disk = {}
  /\ cut = FALSE /\ clean = TRUE

Script == \/ TestMarker \/ TouchDisable \/ TouchBoot \/ RmBoot
          \/ InsmodRefused \/ Insmod \/ InsmodReturns

BootNext == Boot \/ Script \/ ModuleStep \/ Sync \/ Enable \/ GoDown

BootSpec == BootInit /\ [][BootNext]_allVars

\* insmod and rmmod run to their end, and so does every hook.
FairSpec == /\ BootSpec
            /\ WF_allVars(pc # "off" /\ Initialise /\ UNCHANGED bootVars)
            /\ WF_allVars(pc # "off" /\ Unwind /\ UNCHANGED bootVars)
            /\ \A c \in Cpu : WF_allVars(pc # "off" /\ Run(c) /\ UNCHANGED bootVars)

-----------------------------------------------------------------------------
(* Properties *)

(* A module that takes the machine down while it is inserted is not        *)
(* inserted again at the next boot, provided the marker reached the disk:  *)
(* post-fs-data.sh breaks the boot loop.                                   *)
NoBootLoop == cut => pc # "inserting" /\ phase = "out"

(* While every boot ends after the script and with its files written back, *)
(* the guard never disables the module, whatever insmod returned.          *)
GoodModuleStays == clean => "disable" \notin dir \cup disk
=============================================================================
