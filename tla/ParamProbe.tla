----------------------------- MODULE ParamProbe -----------------------------
(***************************************************************************)
(* 03-module-param/experiments/param-perm/param_probe.c: for each          *)
(* parameter reads its file, writes a test value and writes the old value  *)
(* back, then tries values that ought to be refused.  A file that vanishes *)
(* between open and write (ENODEV) is one that was not there.              *)
(***************************************************************************)
EXTENDS ParamDemo

CONSTANTS Blank,   \* a trailing newline or space of a string
          ReadMax  \* elements of a string that read_file has room for (511)

ASSUME ReadAssumption == Blank \notin Numbers /\ ReadMax \in Nat \ {0}

VARIABLES root,   \* the effective user is root
          ppc,    \* "start", "stat", "read", "write", "restore", "bad", "done"
          n,      \* the row of the table it is at
          old,    \* what it read
          rderr,  \* that it could not read
          before, \* (history) the values when it began
          quiet   \* (history) nobody else has touched the module since

probeVars == <<root, ppc, n, old, rderr, before, quiet>>

Row(name, text) == [name |-> name, text |-> text]

PROBES == << Row("my_int", <<1>>), Row("my_ro_int", <<1>>),
             Row("my_hidden", <<1>>), Row("my_wo_int", <<1>>),
             Row("my_bool", <<1>>), Row("my_str", <<1>>),
             Row("my_arr", <<1, 2>>), Row("my_ro_arr", <<1, 2>>),
             Row("cb_int", <<1>>) >>

\* "abc" and a number too large are both refused by the parser of int.
TooMany == [j \in 1 .. ArrMax + 1 |-> 1]
bad == << Row("my_int", <<Junk>>), Row("my_int", <<Junk>>),
          Row("my_bool", <<2>>), Row("my_arr", TooMany) >>

p == PROBES[n].name

ProbeInit == /\ root \in BOOLEAN /\ ppc = "start" /\ n = 1
             /\ old = <<>> /\ rderr = FALSE
             /\ before = Default /\ quiet = FALSE

ProbeStart == /\ ppc = "start" /\ ppc' = "stat"
              /\ before' = val /\ quiet' = up
              /\ UNCHANGED <<pvars, root, n, old, rderr>>

\* (seeded fault: no end mark in the table)
LastRowMissed == n > Len(PROBES)
LastRow == n = Len(PROBES)

\* The next parameter; after the last one the values that are refused.
NextRow == /\ IF LastRow THEN ppc' = "bad" /\ n' = 1
              ELSE ppc' = "stat" /\ n' = n + 1
           /\ old' = <<>> /\ rderr' = FALSE
           /\ UNCHANGED <<root, before, quiet>>

\* A parameter of mode 0 has no file.
Stat == /\ ppc = "stat"
        /\ \/ /\ up /\ Mode[p] # {} /\ ppc' = "read"
              /\ UNCHANGED <<root, n, old, rderr, before, quiet>>
           \/ ~(up /\ Mode[p] # {}) /\ NextRow
        /\ UNCHANGED pvars

\* What is before the blanks at the end.
Stripped(s) ==
  SubSeq(s, 1, Cardinality({i \in 1 .. Len(s) : \E j \in i .. Len(s) : s[j] # Blank}))

\* What read_file makes of the value v of q.  A number and an array fit into its
\* buffer and end in no blank; of a string it keeps ReadMax characters, and of
\* these what is before the blanks - those that are part of the value too.
AsRead(q, v) ==
  IF q # "my_str" THEN v
  ELSE Stripped(SubSeq(v, 1, IF Len(v) < ReadMax THEN Len(v) ELSE ReadMax))

\* Not being able to read is no reason not to write.
read_file == /\ ppc = "read" /\ ppc' = "write"
             /\ rderr' = ~MayRead(p)
             /\ old' = IF MayRead(p) THEN AsRead(p, val[p]) ELSE <<>>
             /\ UNCHANGED <<pvars, root, n, before, quiet>>

\* The files belong to root.
WriteTest == /\ ppc = "write"
             /\ \/ /\ root /\ MayWrite(p)
                   /\ Store(p, PROBES[n].text) /\ ppc' = "restore"
                   /\ UNCHANGED <<root, n, old, rderr, before, quiet>>
                \/ ~(root /\ MayWrite(p)) /\ NextRow /\ UNCHANGED pvars

Restorable == ~rderr /\ MayWrite(p)

\* It reads the value back, to print it, and writes the old one - nothing at
\* all when that was empty.
Restore == /\ ppc = "restore"
           /\ \/ Restorable /\ Store(p, old)
              \/ ~Restorable /\ UNCHANGED pvars
           /\ NextRow

WriteBad == /\ ppc = "bad"
            /\ \/ root /\ MayWrite(bad[n].name) /\ Store(bad[n].name, bad[n].text)
               \/ ~(root /\ MayWrite(bad[n].name)) /\ UNCHANGED pvars
            /\ IF n = Len(bad) THEN ppc' = "done" /\ UNCHANGED n
               ELSE n' = n + 1 /\ UNCHANGED ppc
            /\ UNCHANGED <<root, old, rderr, before, quiet>>

ProbeNext == ProbeStart \/ Stat \/ read_file \/ WriteTest \/ Restore \/ WriteBad

ProbeTypeOK ==
  /\ ppc \in {"start", "stat", "read", "write", "restore", "bad", "done"}
  /\ n \in DOMAIN PROBES /\ (ppc = "bad" => n \in DOMAIN bad)
  /\ root \in BOOLEAN /\ rderr \in BOOLEAN /\ quiet \in BOOLEAN
  /\ rderr => old = <<>>

\* "恢复原值保持现场干净" (param_probe.c:155) - this far: a probe that nobody
\* disturbs leaves a parameter with the value it found, root's or not, except
\* that my_str loses the blanks at its end and what is behind the first ReadMax
\* characters, that my_wo_int, which nobody can read, and a my_str of which
\* nothing could be read back keep what the test wrote, and that the array
\* refused for its length keeps all it had room for.
SceneClean ==
  ppc = "done" /\ quiet => \A q \in Params :
    val[q] = IF ~root \/ "w" \notin Mode[q] THEN before[q]
             ELSE IF q = "my_arr" THEN SubSeq(TooMany, 1, ArrMax)
             ELSE IF q = "my_wo_int" \/ AsRead(q, before[q]) = <<>>
                  THEN (CHOOSE j \in {PROBES[i] : i \in DOMAIN PROBES} : j.name = q).text
             ELSE AsRead(q, before[q])
==============================================================================
