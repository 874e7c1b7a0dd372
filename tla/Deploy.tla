------------------------------- MODULE Deploy -------------------------------
(***************************************************************************)
(* tools/deploy_module.py, deploying param_demo: uploads the sources,      *)
(* builds them on the board, loads and unloads the module and fetches what *)
(* was built.  ssh_run reports how a command ended and main goes on in any *)
(* case; a failed transfer ends the program, and so does a command that    *)
(* says nothing for 300 seconds, wherever it then is.  (A command that was *)
(* given up is taken to end with its connection.)                          *)
(***************************************************************************)
EXTENDS ParamDemo

CONSTANTS MaxDeploys,  \* bound: times it is started, each with changed sources
          None

ASSUME DeployAssumption == MaxDeploys \in Nat

VARIABLES dpc,     \* "idle", "upload", "build", "insmod", "rmmod" or "fetch"
          ver,     \* the sources it deploys
          src,     \* the sources on the board
          ko,      \* the sources the .ko on the board was built from, or None
          cleaned, \* make clean succeeded
          ran,     \* the sources of what it loaded, or None
          fetched  \* the sources of the .ko it fetched, or None

deployVars == <<dpc, ver, src, ko, cleaned, ran, fetched>>

DeployInit == /\ dpc = "idle" /\ ver = 0 /\ src = 0 /\ ko = None
              /\ cleaned = FALSE /\ ran = None /\ fetched = None

DeployStart ==
  /\ dpc = "idle" /\ ver < MaxDeploys
  /\ dpc' = "upload" /\ ver' = ver + 1
  /\ ran' = None /\ fetched' = None /\ cleaned' = FALSE
  /\ UNCHANGED <<pvars, src, ko>>

\* sftp.put, file by file; an exception ends the program.
Upload ==
  /\ dpc = "upload"
  /\ \/ dpc' = "build" /\ src' = ver
     \/ dpc' = "idle" /\ src' \in {src, ver}
  /\ UNCHANGED <<pvars, ver, ko, cleaned, ran, fetched>>

\* (seeded fault: no make clean)
BuildUnclean(clean, made) == IF made THEN src ELSE ko

\* make clean; make; modinfo: each is run whatever became of the one before.
\* Without the kernel's build tree neither make does anything.
Build(clean, made) == IF made THEN src ELSE IF clean THEN None ELSE ko

MakeAll ==
  /\ dpc = "build" /\ dpc' \in {"insmod", "idle"}
  /\ \E clean, made \in BOOLEAN : cleaned' = clean /\ ko' = Build(clean, made)
  /\ UNCHANGED <<pvars, ver, src, ran, fetched>>

\* insmod fails without a .ko, and while the module is loaded (EEXIST).
InsmodKo ==
  /\ dpc = "insmod" /\ dpc' \in {"rmmod", "idle"}
  /\ \/ ko # None /\ Insmod("my_int", Default["my_int"]) /\ ran' = ko
     \/ UNCHANGED <<pvars, ran>>
  /\ UNCHANGED <<ver, src, ko, cleaned, fetched>>

\* rmmod unloads the module whoever loaded it.
RmmodKo ==
  /\ dpc = "rmmod" /\ dpc' \in {"fetch", "idle"}
  /\ \/ up /\ Rmmod
     \/ (~up \/ dpc' = "idle") /\ UNCHANGED pvars
  /\ UNCHANGED <<ver, src, ko, cleaned, ran, fetched>>

\* A file that is not there is skipped; without a third argument nothing is
\* fetched, and a failed transfer ends the program here too.
Fetch ==
  /\ dpc = "fetch" /\ dpc' = "idle"
  /\ fetched' \in {ko, None}
  /\ UNCHANGED <<pvars, ver, src, ko, cleaned, ran>>

DeployNext == DeployStart \/ Upload \/ MakeAll \/ InsmodKo \/ RmmodKo \/ Fetch

DeployTypeOK ==
  /\ dpc \in {"idle", "upload", "build", "insmod", "rmmod", "fetch"}
  /\ ver \in 0 .. MaxDeploys /\ src \in 0 .. ver /\ cleaned \in BOOLEAN
  /\ {ko, ran, fetched} \subseteq 0 .. ver \cup {None}

\* "先 clean 保证是全新产物" (deploy_module.py:110) - when make clean succeeds:
\* then whatever of the later steps fails, what is loaded and what is fetched
\* was built from the sources just uploaded.  Its failure is thrown away, and
\* then a .ko of an earlier deployment may pass for the new one.
FreshIfCleaned == cleaned => {ran, fetched} \subseteq {ver, None}
==============================================================================
