---------------------------- MODULE ParamLabProofs ----------------------------
(***************************************************************************)
(* Proofs about ParamLab, for any room in the arrays and any number of     *)
(* deployments and of touches from the shell.                              *)
(***************************************************************************)
EXTENDS ParamLab, SequenceTheorems, FiniteSetTheorems, TLAPS

------------------------------------------------------------------------------
(* The inductive invariants *)

Elements == Numbers \cup {Junk, Blank}

\* What the parser of parameter q leaves in it.
Fits(q, x) == /\ Len(x) <= Room(q)
              /\ \A j \in 1 .. Len(x) : Accepts(q, x[j])
              /\ x # <<>> \/ q \in Arrays \cup {"my_str"}

\* The module: every parameter holds what its parser takes, and a module that is
\* not loaded has its initial values, and nothing to tell.
Loadable == ~up => val = Default /\ notes = <<>>
ParamInv == /\ up \in BOOLEAN
            /\ val \in [Params -> Seq(Elements)]
            /\ \A q \in Params : Fits(q, val[q])
            /\ notes \in Seq(Seq(Elements) \X Seq(Elements))
            /\ CbNotified
            /\ Loadable

\* deploy_module: the sources on the board are its own when it builds, and a .ko
\* it finds or makes after a successful make clean was built from them.
Nothing == ~cleaned /\ ran = None /\ fetched = None
DeployInv == /\ DeployTypeOK
             /\ dpc \in {"upload", "build"} => Nothing
             /\ dpc = "build" => src = ver
             /\ cleaned => {ko, ran, fetched} \subseteq {ver, None}

------------------------------------------------------------------------------
(* The table of the parameters *)

\* The nine parameters.
LEMMA ParamsAre ==
  Params = {"my_int", "my_ro_int", "my_hidden", "my_wo_int", "my_bool", "my_str", "my_arr",
            "my_ro_arr", "cb_int"}
BY DEF Params, Mode

\* How many values a parameter has room for.
LEMMA RoomIs ==
  ASSUME NEW q
  PROVE  /\ Room(q) \in Nat \ {0}
         /\ q \in Arrays => Room(q) = ArrMax
         /\ q = "my_str" => Room(q) = ArrMax + 1
         /\ q \notin Arrays \cup {"my_str"} => Room(q) = 1
<1>1. CASE q \in Arrays
  <2>1. Room(q) = ArrMax
    BY <1>1 DEF Room, Arrays
  <2> QED
    BY <1>1, <2>1, ArrAssumption DEF Arrays
<1>2. CASE q = "my_str"
  <2>1. Room(q) = ArrMax + 1
    BY <1>2 DEF Room, Arrays
  <2> QED
    BY <1>2, <2>1, ArrAssumption DEF Arrays
<1>3. CASE q \notin Arrays \cup {"my_str"}
  <2>1. Room(q) = 1
    BY <1>3 DEF Room
  <2> QED
    BY <1>3, <2>1
<1> QED
  BY <1>1, <1>2, <1>3

\* What a parameter's setter takes for one value.
LEMMA AcceptsIs ==
  ASSUME NEW q, NEW x
  PROVE  /\ q = "my_str" => Accepts(q, x)
         /\ q # "my_str" /\ x \in {0, 1} => Accepts(q, x)
         /\ q \notin {"my_str", "my_bool"} => (Accepts(q, x) <=> x \in Numbers)
         /\ q = "my_bool" => (Accepts(q, x) <=> x \in {0, 1})
<1>1. CASE q = "my_str"
  BY <1>1 DEF Accepts
<1>2. CASE q = "my_bool"
  BY <1>2 DEF Accepts
<1>3. CASE q \notin {"my_str", "my_bool"}
  BY <1>3 DEF Accepts, Numbers
<1> QED
  BY <1>1, <1>2, <1>3

\* What a parameter is before anyone writes it.
LEMMA DefaultIs ==
  /\ Default \in [Params -> Seq(Elements)]
  /\ \A q \in Params : Fits(q, Default[q])
<1>1. ASSUME NEW q \in Params PROVE Default[q] \in Seq(Elements) /\ Fits(q, Default[q])
  <2>0. {0, 2} \subseteq Elements
    BY DEF Elements, Numbers
  <2>1. CASE q \in Arrays
    <3>1. Default[q] = <<>>
      BY <2>1 DEF Default
    <3> QED
      BY <2>1, <3>1, RoomIs DEF Fits
  <2>2. CASE q \in {"my_ro_int", "my_wo_int", "my_str"}
    <3>1. Default[q] = <<2>>
      BY <2>2 DEF Default, Arrays
    <3>2. Len(<<2>>) = 1 /\ <<2>>[1] = 2 /\ <<2>> # <<>>
      OBVIOUS
    <3>3. Accepts(q, 2)
      BY <2>2, AcceptsIs DEF Numbers
    <3>4. Room(q) >= 1
      BY RoomIs
    <3>5. Fits(q, <<2>>)
      BY <3>2, <3>3, <3>4 DEF Fits
    <3> QED
      BY <3>1, <3>5, <2>0
  <2>3. CASE q \notin Arrays \cup {"my_ro_int", "my_wo_int", "my_str"}
    <3>1. Default[q] = <<0>>
      BY <2>3 DEF Default
    <3>2. Len(<<0>>) = 1 /\ <<0>>[1] = 0 /\ <<0>> # <<>>
      OBVIOUS
    <3>3. Accepts(q, 0)
      BY <2>3, AcceptsIs
    <3>4. Room(q) >= 1
      BY RoomIs
    <3>5. Fits(q, <<0>>)
      BY <3>2, <3>3, <3>4 DEF Fits
    <3> QED
      BY <3>1, <3>5, <2>0
  <2> QED
    BY <2>1, <2>2, <2>3
<1> QED
  BY <1>1 DEF Default

------------------------------------------------------------------------------
(* The parsers *)

\* The elements taken are the first ones, as many as are counted.
LEMMA TakenIs ==
  ASSUME NEW q, NEW text \in Seq(Elements)
  PROVE  /\ Taken(q, text) \in 0 .. Len(text)
         /\ Taken(q, text) <= Room(q)
         /\ \A j \in 1 .. Taken(q, text) : Accepts(q, text[j])
         /\ Len(text) <= Room(q) /\ (\A j \in 1 .. Len(text) : Accepts(q, text[j]))
              => Taken(q, text) = Len(text)
<1> DEFINE Takes(j) == j <= Room(q) /\ \A x \in 1 .. j : Accepts(q, text[x])
           Ones == {j \in 1 .. Len(text) : Takes(j)}
           k == Taken(q, text)
<1>1. Len(text) \in Nat /\ Room(q) \in Nat \ {0}
  BY RoomIs
<1>2. k = Cardinality(Ones)
  BY DEF Taken
<1>3. \A j \in Ones : 1 .. j \subseteq Ones
  BY <1>1
<1>4. \A m \in Nat : IsFiniteSet(1 .. m) /\ Cardinality(1 .. m) = m
  <2> TAKE m \in Nat
  <2>1. 1 \in Int /\ m \in Int /\ (IF 1 > m THEN 0 ELSE m - 1 + 1) = m
    OBVIOUS
  <2> QED
    BY <2>1, FS_Interval
<1>5. IsFiniteSet(Ones) /\ k \in Nat /\ k <= Len(text) /\ Ones \subseteq 1 .. Len(text)
  <2>1. Ones \in SUBSET (1 .. Len(text))
    OBVIOUS
  <2> HIDE DEF Ones, k
  <2>2. IsFiniteSet(Ones) /\ Cardinality(Ones) <= Cardinality(1 .. Len(text))
    BY <2>1, <1>1, <1>4, FS_Subset
  <2>3. Cardinality(Ones) \in Nat
    BY <2>2, FS_CardinalityType
  <2> QED
    BY <2>1, <2>2, <2>3, <1>1, <1>2, <1>4
<1>6. Ones = 1 .. k
  <2> HIDE DEF Ones, k
  <2>1. ASSUME NEW j \in Ones PROVE j \in 1 .. k
    <3>1. j \in 1 .. Len(text)
      BY <1>5
    <3>2. Cardinality(1 .. j) = j
      BY <3>1, <1>1, <1>4
    <3>3. 1 .. j \in SUBSET Ones
      BY <1>3
    <3>4. Cardinality(1 .. j) <= k
      BY <3>3, <1>2, <1>5, FS_Subset
    <3> QED
      BY <3>1, <3>2, <3>4, <1>1, <1>5
  <2>2. IsFiniteSet(1 .. k) /\ Cardinality(1 .. k) = k
    BY <1>4, <1>5
  <2> QED
    BY <2>1, <2>2, <1>2, FS_Subset
<1>7. k <= Room(q) /\ \A j \in 1 .. k : Accepts(q, text[j])
  <2>1. CASE k = 0
    BY <2>1, <1>1
  <2>2. CASE k # 0
    <3>1. k \in Ones
      BY <2>2, <1>5, <1>6
    <3>2. Takes(k)
      BY <3>1
    <3> QED
      BY <3>2
  <2> QED
    BY <2>1, <2>2
<1>8. Len(text) <= Room(q) /\ (\A j \in 1 .. Len(text) : Accepts(q, text[j])) => k = Len(text)
  <2> SUFFICES ASSUME Len(text) <= Room(q), \A j \in 1 .. Len(text) : Accepts(q, text[j]),
                      Len(text) # 0
               PROVE  k = Len(text)
    BY <1>1, <1>5
  <2>1. Len(text) \in Ones
    BY <1>1
  <2>2. Len(text) \in 1 .. k
    BY <2>1, <1>6
  <2> QED
    BY <2>2, <1>1, <1>5
<1> QED
  BY <1>5, <1>7, <1>8, <1>1

\* When a whole text is taken.
LEMMA AcceptedIs ==
  ASSUME NEW q, NEW text \in Seq(Elements)
  PROVE  Accepted(q, text) <=> /\ Len(text) <= Room(q)
                               /\ \A j \in 1 .. Len(text) : Accepts(q, text[j])
                               /\ text # <<>> \/ q = "my_str"
<1>1. Len(text) \in Nat
  OBVIOUS
<1> QED
  BY <1>1, TakenIs DEF Accepted

\* Whatever is written to a parameter, it holds what its parser takes.
LEMMA AfterFits ==
  ASSUME NEW q \in Params, NEW text \in Seq(Elements), ParamInv
  PROVE  After(q, text) \in Seq(Elements) /\ Fits(q, After(q, text))
<1>1. CASE q \in Arrays
  <2> DEFINE k == Taken(q, text)
             front == SubSeq(text, 1, k)
  <2>1. k \in 0 .. Len(text) /\ k <= Room(q) /\ \A j \in 1 .. k : Accepts(q, text[j])
    BY TakenIs
  <2>2. Len(text) \in Nat /\ \A j \in 1 .. Len(text) : text[j] \in Elements
    OBVIOUS
  <2>3. \A j \in 1 .. k : text[j] \in Elements
    BY <2>1, <2>2
  <2> HIDE DEF k
  <2>4. front \in Seq(Elements) /\ Len(front) = (IF 1 <= k THEN k - 1 + 1 ELSE 0)
        /\ \A j \in 1 .. k - 1 + 1 : front[j] = text[1 + j - 1]
    BY <2>1, <2>2, <2>3, SubSeqProperties
  <2> HIDE DEF front
  <2>5. Len(front) = k /\ \A j \in 1 .. k : front[j] = text[j]
    BY <2>1, <2>2, <2>4
  <2>6. Fits(q, front)
    BY <1>1, <2>1, <2>5 DEF Fits
  <2> QED
    BY <1>1, <2>4, <2>6 DEF After, front, k
<1>2. CASE q \notin Arrays /\ Accepted(q, text)
  BY <1>2, AcceptedIs DEF After, Fits
<1>3. CASE q \notin Arrays /\ ~Accepted(q, text)
  BY <1>3 DEF After, ParamInv
<1> QED
  BY <1>1, <1>2, <1>3

------------------------------------------------------------------------------
(* What is done to the module *)

\* A write changes the parameter it is made to, and no other.
LEMMA StoreDoes ==
  ASSUME ParamInv, NEW q \in Params, NEW text \in Seq(Elements), Store(q, text)
  PROVE  /\ up' = up /\ val' \in [Params -> Seq(Elements)]
         /\ \A r \in Params \ {q} : val'[r] = val[r]
         /\ val'[q] = IF text = <<>> THEN val[q] ELSE After(q, text)
<1>1. CASE text = <<>>
  BY <1>1 DEF Store, ParamInv
<1>2. CASE text # <<>>
  <2>1. up' = up /\ val' = [val EXCEPT ![q] = After(q, text)]
    BY <1>2 DEF Store
  <2>2. val \in [Params -> Seq(Elements)] /\ After(q, text) \in Seq(Elements)
    BY AfterFits DEF ParamInv
  <2> QED
    BY <1>2, <2>1, <2>2
<1> QED
  BY <1>1, <1>2

\* cb_int_set tells of a change from one value to another.
LEMMA NotesGrow ==
  ASSUME NEW x \in Seq(Elements), NEW y \in Seq(Elements), CbNotified, val["cb_int"] = x,
         notes \in Seq(Seq(Elements) \X Seq(Elements)),
         notes' = Append(notes, <<x, y>>), val'["cb_int"] = y
  PROVE  CbNotified' /\ notes' \in Seq(Seq(Elements) \X Seq(Elements))
<1> DEFINE k == Len(notes)
<1>1. k \in Nat /\ DOMAIN notes = 1 .. k
  OBVIOUS
<1>2. notes' \in Seq(Seq(Elements) \X Seq(Elements))
  BY <1>1
<1>3. Len(notes') = k + 1 /\ DOMAIN notes' = 1 .. k + 1 /\ notes'[k + 1] = <<x, y>>
      /\ \A j \in 1 .. k : notes'[j] = notes[j]
  BY <1>1
<1>4. k = 0 <=> notes = <<>>
  BY <1>1
<1>5. notes' # <<>>
  BY <1>1, <1>3
<1>6. \A j \in 1 .. k : notes[j][1] = IF j = 1 THEN Default["cb_int"] ELSE notes[j - 1][2]
  BY <1>1 DEF CbNotified
<1>7. x = IF notes = <<>> THEN Default["cb_int"] ELSE notes[k][2]
  BY DEF CbNotified
<1> HIDE DEF k
<1>8. ASSUME NEW j \in 1 .. k + 1
      PROVE  notes'[j][1] = IF j = 1 THEN Default["cb_int"] ELSE notes'[j - 1][2]
  <2>1. CASE j = k + 1
    <3>1. notes'[j][1] = x
      BY <2>1, <1>3
    <3>2. CASE k = 0
      BY <2>1, <3>1, <3>2, <1>4, <1>7
    <3>3. CASE k # 0
      <4>1. j # 1 /\ j - 1 = k /\ k \in 1 .. k
        BY <2>1, <3>3, <1>1
      <4> QED
        BY <4>1, <3>1, <3>3, <1>3, <1>4, <1>7
    <3> QED
      BY <3>2, <3>3
  <2>2. CASE j # k + 1
    <3>1. j \in 1 .. k /\ (j # 1 => j - 1 \in 1 .. k)
      BY <2>2, <1>1
    <3> QED
      BY <3>1, <1>3, <1>6
  <2> QED
    BY <2>1, <2>2
<1>9. notes'[Len(notes')][2] = y
  BY <1>3
<1> QED
  BY <1>2, <1>3, <1>5, <1>8, <1>9 DEF CbNotified

\* The callback's notes stay when its parameter does.
LEMMA NotesKept ==
  ASSUME CbNotified, notes' = notes, val'["cb_int"] = val["cb_int"]
  PROVE  CbNotified'
BY DEF CbNotified

\* A write to a file under /sys/module.
LEMMA StoreInv ==
  ASSUME ParamInv, up, NEW q \in Params, NEW text \in Seq(Elements), Store(q, text)
  PROVE  ParamInv'
<1>1. /\ up' = up /\ val' \in [Params -> Seq(Elements)]
      /\ \A r \in Params \ {q} : val'[r] = val[r]
      /\ val'[q] = IF text = <<>> THEN val[q] ELSE After(q, text)
  BY StoreDoes
<1>2. ASSUME NEW r \in Params PROVE Fits(r, val'[r])
  <2>1. CASE r = q
    BY <2>1, <1>1, AfterFits DEF ParamInv
  <2>2. CASE r # q
    BY <2>2, <1>1 DEF ParamInv
  <2> QED
    BY <2>1, <2>2
<1>3. CbNotified /\ notes \in Seq(Seq(Elements) \X Seq(Elements))
  BY DEF ParamInv
<1>c. "cb_int" \in Params /\ "cb_int" \notin Arrays
  BY ParamsAre DEF Arrays
<1>4. CbNotified' /\ notes' \in Seq(Seq(Elements) \X Seq(Elements))
  <2>1. CASE text = <<>>
    BY <2>1, <1>1, <1>3, NotesKept DEF Store
  <2>2. CASE text # <<>> /\ q # "cb_int"
    BY <2>2, <1>1, <1>3, <1>c, NotesKept DEF Store
  <2>3. CASE text # <<>> /\ q = "cb_int" /\ ~Accepted(q, text)
    BY <2>3, <1>1, <1>3, <1>c, NotesKept DEF Store, cb_int_set, Heard, After
  <2>4. CASE text # <<>> /\ q = "cb_int" /\ Accepted(q, text)
    <3>1. val'["cb_int"] = text /\ notes' = Append(notes, <<val["cb_int"], text>>)
      BY <2>4, <1>1, <1>c DEF Store, cb_int_set, Heard, After
    <3>2. val["cb_int"] \in Seq(Elements)
      BY <1>c DEF ParamInv
    <3> QED
      BY <3>1, <3>2, <1>3, NotesGrow
  <2> QED
    BY <2>1, <2>2, <2>3, <2>4
<1>5. Loadable'
  BY <1>1 DEF Loadable
<1> QED
  BY <1>1, <1>2, <1>4, <1>5 DEF ParamInv

\* The text given on insmod's command line.
LEMMA InsmodInv ==
  ASSUME ParamInv, NEW q \in Params, NEW text \in Seq(Elements), Insmod(q, text)
  PROVE  ParamInv'
<1>1. ~up /\ up' = TRUE /\ val' = [Default EXCEPT ![q] = text] /\ Accepted(q, text)
  BY DEF Insmod
<1>2. val = Default /\ notes = <<>>
  BY <1>1 DEF ParamInv, Loadable
<1>3. val' \in [Params -> Seq(Elements)] /\ val'[q] = text
      /\ \A r \in Params \ {q} : val'[r] = Default[r]
  BY <1>1, DefaultIs
<1>4. ASSUME NEW r \in Params PROVE Fits(r, val'[r])
  <2>1. CASE r = q
    BY <2>1, <1>1, <1>3, AcceptedIs DEF Fits
  <2>2. CASE r # q
    BY <2>2, <1>3, DefaultIs
  <2> QED
    BY <2>1, <2>2
<1>5. CbNotified /\ notes \in Seq(Seq(Elements) \X Seq(Elements))
  BY DEF ParamInv
<1>c. "cb_int" \in Params
  BY ParamsAre
<1>6. CbNotified' /\ notes' \in Seq(Seq(Elements) \X Seq(Elements))
  <2>1. CASE q = "cb_int"
    <3>1. notes' = Append(notes, <<val["cb_int"], text>>) /\ val'["cb_int"] = text
      BY <2>1, <1>1, <1>3 DEF Insmod, cb_int_set, Heard
    <3>2. val["cb_int"] \in Seq(Elements)
      BY <1>c DEF ParamInv
    <3> QED
      BY <3>1, <3>2, <1>5, NotesGrow
  <2>2. CASE q # "cb_int"
    <3>1. notes' = notes /\ val'["cb_int"] = val["cb_int"]
      BY <2>2, <1>2, <1>3, <1>c DEF Insmod
    <3> QED
      BY <3>1, <1>5, NotesKept
  <2> QED
    BY <2>1, <2>2
<1>7. Loadable'
  BY <1>1 DEF Loadable
<1> QED
  BY <1>1, <1>3, <1>4, <1>6, <1>7 DEF ParamInv

\* A module that has just been unloaded, or never loaded, is as the source
\* initialises it.
LEMMA FreshInv ==
  /\ ParamInit => ParamInv
  /\ Rmmod => ParamInv'
<1>2. ASSUME ParamInit PROVE ParamInv
  <2>1. up = FALSE /\ val = Default /\ notes = <<>>
    BY <1>2 DEF ParamInit
  <2>2. DOMAIN notes = {} /\ notes \in Seq(Seq(Elements) \X Seq(Elements))
    BY <2>1
  <2>3. CbNotified
    BY <2>1, <2>2 DEF CbNotified
  <2> QED
    BY <2>1, <2>2, <2>3, DefaultIs DEF ParamInv, Loadable
<1>3. ASSUME Rmmod PROVE ParamInv'
  <2>1. up' = FALSE /\ val' = Default /\ notes' = <<>>
    BY <1>3 DEF Rmmod
  <2>2. DOMAIN notes' = {} /\ notes' \in Seq(Seq(Elements) \X Seq(Elements))
    BY <2>1
  <2>3. CbNotified'
    BY <2>1, <2>2 DEF CbNotified
  <2> QED
    BY <2>1, <2>2, <2>3, DefaultIs DEF ParamInv, Loadable
<1> QED
  BY <1>2, <1>3

------------------------------------------------------------------------------
(* The probe's tables *)

\* The array that is one value too long.
LEMMA TooManyIs ==
  /\ TooMany \in Seq(Elements) /\ Len(TooMany) = ArrMax + 1
  /\ \A j \in 1 .. ArrMax + 1 : TooMany[j] = 1
<1>1. ArrMax + 1 \in Nat /\ 1 \in Elements
  BY ArrAssumption DEF Elements, Numbers
<1> QED
  BY <1>1 DEF TooMany

\* The rows of the probe's table.
LEMMA RowsAre ==
  /\ DOMAIN PROBES = 1 .. 9 /\ Len(PROBES) = 9
  /\ PROBES[1] = Row("my_int", <<1>>)    /\ PROBES[2] = Row("my_ro_int", <<1>>)
  /\ PROBES[3] = Row("my_hidden", <<1>>) /\ PROBES[4] = Row("my_wo_int", <<1>>)
  /\ PROBES[5] = Row("my_bool", <<1>>)   /\ PROBES[6] = Row("my_str", <<1>>)
  /\ PROBES[7] = Row("my_arr", <<1, 2>>) /\ PROBES[8] = Row("my_ro_arr", <<1, 2>>)
  /\ PROBES[9] = Row("cb_int", <<1>>)
BY DEF PROBES

\* The refused texts it tries.
LEMMA BadAre ==
  /\ DOMAIN bad = 1 .. 4 /\ Len(bad) = 4
  /\ bad[1] = Row("my_int", <<Junk>>) /\ bad[2] = Row("my_int", <<Junk>>)
  /\ bad[3] = Row("my_bool", <<2>>)   /\ bad[4] = Row("my_arr", TooMany)
BY DEF bad

Names == <<"my_int", "my_ro_int", "my_hidden", "my_wo_int", "my_bool", "my_str", "my_arr",
           "my_ro_arr", "cb_int">>

\* A row for each parameter, and one only; but for the arrays what it writes is
\* one number that its parser takes.
LEMMA RowsFit ==
  \A j \in 1 .. 9 :
    /\ PROBES[j].name = Names[j] /\ Names[j] \in Params
    /\ PROBES[j].text \in Seq(Elements) /\ PROBES[j].text # <<>>
    /\ Names[j] \notin Arrays => PROBES[j].text = <<1>>
<1>1. <<1>> \in Seq(Elements) /\ <<1, 2>> \in Seq(Elements) /\ <<1>> # <<>> /\ <<1, 2>> # <<>>
  BY DEF Elements, Numbers
<1> DEFINE S == <<1>>
           T == <<1, 2>>
<1>2. S \in Seq(Elements) /\ T \in Seq(Elements) /\ S # <<>> /\ T # <<>>
  BY <1>1
<1>3. /\ PROBES[1] = Row("my_int", S)    /\ PROBES[2] = Row("my_ro_int", S)
      /\ PROBES[3] = Row("my_hidden", S) /\ PROBES[4] = Row("my_wo_int", S)
      /\ PROBES[5] = Row("my_bool", S)   /\ PROBES[6] = Row("my_str", S)
      /\ PROBES[7] = Row("my_arr", T)    /\ PROBES[8] = Row("my_ro_arr", T)
      /\ PROBES[9] = Row("cb_int", S)
  BY RowsAre
<1>4. /\ Names[1] = "my_int" /\ Names[2] = "my_ro_int" /\ Names[3] = "my_hidden"
      /\ Names[4] = "my_wo_int" /\ Names[5] = "my_bool" /\ Names[6] = "my_str"
      /\ Names[7] = "my_arr" /\ Names[8] = "my_ro_arr" /\ Names[9] = "cb_int"
  BY DEF Names
<1> SUFFICES ASSUME NEW j \in 1 .. 9
             PROVE  /\ PROBES[j].name = Names[j] /\ Names[j] \in Params
                    /\ PROBES[j].text \in Seq(Elements) /\ PROBES[j].text # <<>>
                    /\ Names[j] \notin Arrays => PROBES[j].text = S
  OBVIOUS
<1> HIDE DEF S, T
<1>5. j \in {1, 2, 3, 4, 5, 6, 7, 8, 9}
  OBVIOUS
<1>6. PROBES[j].name = Names[j] /\ Names[j] \in Params
  BY <1>3, <1>4, <1>5, ParamsAre DEF Row
<1>7. PROBES[j].text \in {S, T} /\ (j \notin {7, 8} => PROBES[j].text = S)
  BY <1>3, <1>5 DEF Row
<1>8. j \in {7, 8} => Names[j] \in Arrays
  BY <1>4 DEF Arrays
<1> QED
  BY <1>2, <1>6, <1>7, <1>8

\* They are texts a parameter may be given.
LEMMA BadFits ==
  \A j \in 1 .. 4 : /\ bad[j].name \in {"my_int", "my_bool", "my_arr"}
                    /\ bad[j].name \in Params /\ bad[j].text \in Seq(Elements)
<1>1. <<Junk>> \in Seq(Elements) /\ <<2>> \in Seq(Elements) /\ TooMany \in Seq(Elements)
  BY TooManyIs DEF Elements, Numbers
<1> DEFINE S == <<Junk>>
           T == <<2>>
           Many == TooMany
<1>2. /\ bad[1] = Row("my_int", S) /\ bad[2] = Row("my_int", S)
      /\ bad[3] = Row("my_bool", T) /\ bad[4] = Row("my_arr", Many)
  BY BadAre
<1>3. S \in Seq(Elements) /\ T \in Seq(Elements) /\ Many \in Seq(Elements)
  BY <1>1
<1> HIDE DEF S, T, Many
<1>4. \A j \in 1 .. 4 : j \in {1, 2, 3, 4}
  OBVIOUS
<1> QED
  BY <1>2, <1>3, <1>4, ParamsAre DEF Row

------------------------------------------------------------------------------
(* What the probe reads *)

\* Taking a front of a value leaves one that fits a string, and so does taking
\* off the blanks at the end.
LEMMA FrontFits ==
  ASSUME NEW v \in Seq(Elements), Len(v) <= Room("my_str"), NEW k \in 0 .. Len(v)
  PROVE  /\ SubSeq(v, 1, k) \in Seq(Elements) /\ Fits("my_str", SubSeq(v, 1, k))
         /\ Len(SubSeq(v, 1, k)) <= Room("my_str")
<1> DEFINE front == SubSeq(v, 1, k)
<1>1. Len(v) \in Nat /\ \A j \in 1 .. Len(v) : v[j] \in Elements
  OBVIOUS
<1>2. \A j \in 1 .. k : v[j] \in Elements
  BY <1>1
<1>3. front \in Seq(Elements) /\ Len(front) = (IF 1 <= k THEN k - 1 + 1 ELSE 0)
  BY <1>1, <1>2, SubSeqProperties
<1> HIDE DEF front
<1>4. Len(front) <= Len(v) /\ Len(front) <= Room("my_str")
  BY <1>1, <1>3, RoomIs
<1>5. Fits("my_str", front)
  BY <1>4, AcceptsIs DEF Fits
<1> QED
  BY <1>3, <1>4, <1>5 DEF front

\* What the probe reads of a parameter, it can be given back: blanks taken off
\* and cut, it still fits (param_probe.c:80-86).
LEMMA AsReadFits ==
  ASSUME NEW q \in Params, NEW v \in Seq(Elements), Fits(q, v)
  PROVE  AsRead(q, v) \in Seq(Elements) /\ Fits(q, AsRead(q, v))
<1>1. CASE q # "my_str"
  BY <1>1 DEF AsRead
<1>2. CASE q = "my_str"
  <2> DEFINE k == IF Len(v) < ReadMax THEN Len(v) ELSE ReadMax
             cut == SubSeq(v, 1, k)
  <2>1. Len(v) <= Room("my_str") /\ Len(v) \in Nat
    BY <1>2 DEF Fits
  <2>2. k \in 0 .. Len(v)
    BY <2>1, ReadAssumption
  <2> HIDE DEF k
  <2>3. cut \in Seq(Elements) /\ Len(cut) <= Room("my_str")
    BY <2>1, <2>2, FrontFits
  <2> HIDE DEF cut
  <2> DEFINE Kept == {i \in 1 .. Len(cut) : \E j \in i .. Len(cut) : cut[j] # Blank}
  <2>4. Len(cut) \in Nat
    BY <2>3
  <2>5. IsFiniteSet(1 .. Len(cut)) /\ Cardinality(1 .. Len(cut)) = Len(cut)
    <3> DEFINE m == Len(cut)
    <3> HIDE DEF m
    <3>1. m \in Nat
      BY <2>4 DEF m
    <3>2. IsFiniteSet(1 .. m) /\ Cardinality(1 .. m) = m
      BY <3>1, FS_Interval
    <3> QED
      BY <3>2 DEF m
  <2>6. Cardinality(Kept) \in 0 .. Len(cut)
    <3>1. Kept \subseteq 1 .. Len(cut)
      OBVIOUS
    <3> HIDE DEF Kept
    <3>2. /\ IsFiniteSet(Kept) /\ Cardinality(Kept) <= Cardinality(1 .. Len(cut))
      BY <3>1, <2>5, FS_Subset
    <3>3. Cardinality(Kept) \in Nat
      BY <3>2, FS_CardinalityType
    <3> QED
      BY <3>2, <3>3, <2>4, <2>5
  <2>7. AsRead(q, v) = Stripped(cut) /\ Stripped(cut) = SubSeq(cut, 1, Cardinality(Kept))
    BY <1>2 DEF AsRead, cut, k, Stripped
  <2> HIDE DEF Kept
  <2> QED
    BY <1>2, <2>3, <2>6, <2>7, FrontFits
<1> QED
  BY <1>1, <1>2

------------------------------------------------------------------------------
(* The module, whoever acts *)

ProbeTypes == ProbeTypeOK /\ old \in Seq(Elements)

\* Every step keeps the probe's place in its tables.
LEMMA ProbeTypesNext == ParamInv /\ ProbeTypes /\ [Next]_vars => ProbeTypes'
<1> SUFFICES ASSUME ParamInv, ProbeTypes, [Next]_vars PROVE ProbeTypes'
  OBVIOUS
<1>1. /\ ppc \in {"start", "stat", "read", "write", "restore", "bad", "done"}
      /\ n \in 1 .. 9 /\ (ppc = "bad" => n \in 1 .. 4)
      /\ root \in BOOLEAN /\ rderr \in BOOLEAN /\ quiet \in BOOLEAN
      /\ (rderr => old = <<>>) /\ old \in Seq(Elements)
  BY RowsAre, BadAre DEF ProbeTypes, ProbeTypeOK
<1>2. n \in 1 .. 9 => p = Names[n] /\ p \in Params
  BY RowsFit DEF p
<1>3. SUFFICES /\ ppc' \in {"start", "stat", "read", "write", "restore", "bad", "done"}
               /\ n' \in 1 .. 9 /\ (ppc' = "bad" => n' \in 1 .. 4)
               /\ root' \in BOOLEAN /\ rderr' \in BOOLEAN /\ quiet' \in BOOLEAN
               /\ (rderr' => old' = <<>>) /\ old' \in Seq(Elements)
  BY RowsAre, BadAre DEF ProbeTypes, ProbeTypeOK
<1>4. CASE UNCHANGED probeVars
  BY <1>1, <1>4 DEF probeVars
<1>5. CASE NextRow /\ ppc # "bad"
  <2>1. root' = root /\ quiet' = quiet /\ old' = <<>> /\ rderr' = FALSE
    BY <1>5 DEF NextRow
  <2>2. \/ ppc' = "bad" /\ n' = 1
        \/ ppc' = "stat" /\ n' = n + 1 /\ n # 9
    BY <1>5, RowsAre DEF NextRow, LastRow
  <2>3. n' \in 1 .. 9 /\ (ppc' = "bad" => n' \in 1 .. 4)
    BY <2>2, <1>1
  <2>4. ppc' \in {"bad", "stat"}
    BY <2>2
  <2>5. <<>> \in Seq(Elements) /\ FALSE \in BOOLEAN
    OBVIOUS
  <2> QED
    BY <2>1, <2>3, <2>4, <2>5, <1>1
<1>6. CASE ProbeStart
  <2>1. up \in BOOLEAN /\ quiet' = up
    BY <1>6 DEF ParamInv, ProbeStart
  <2>2. quiet' \in BOOLEAN
    BY <2>1
  <2> QED
    BY <1>1, <1>6, <2>2 DEF ProbeStart
<1>7. CASE Stat
  BY <1>1, <1>5, <1>7 DEF Stat
<1>8. CASE read_file
  <2>1. AsRead(p, val[p]) \in Seq(Elements)
    BY <1>1, <1>2, AsReadFits DEF ParamInv
  <2>2. rderr' \in BOOLEAN /\ (rderr' <=> ~MayRead(p))
    BY <1>8, ZenonT(20) DEF read_file
  <2>3. old' = IF MayRead(p) THEN AsRead(p, val[p]) ELSE <<>>
    BY <1>8 DEF read_file
  <2>4. rderr' \in BOOLEAN /\ (rderr' => old' = <<>>) /\ old' \in Seq(Elements)
    BY <2>1, <2>2, <2>3
  <2> QED
    BY <1>1, <1>8, <2>4 DEF read_file
<1>9. CASE WriteTest
  BY <1>1, <1>5, <1>9 DEF WriteTest
<1>10. CASE Restore
  BY <1>1, <1>5, <1>10 DEF Restore
<1>11. CASE WriteBad
  <2>1. /\ root' = root /\ quiet' = quiet /\ old' = old /\ rderr' = rderr /\ ppc = "bad"
        /\ \/ ppc' = "done" /\ n' = n
           \/ ppc' = ppc /\ n' = n + 1 /\ n # 4
    BY <1>11, BadAre DEF WriteBad
  <2> QED
    BY <2>1, <1>1
<1>12. CASE Disturbed
  <2>1. quiet' \in BOOLEAN
    BY <1>12 DEF Disturbed
  <2> QED
    BY <1>1, <1>12, <2>1 DEF Disturbed
<1> QED
  BY <1>4, <1>6, <1>7, <1>8, <1>9, <1>10, <1>11, <1>12 DEF Next, ProbeNext, vars

\* Every step keeps the parameters.
LEMMA ParamNext == ParamInv /\ ProbeTypes /\ [Next]_vars => ParamInv'
<1> SUFFICES ASSUME ParamInv, ProbeTypes, [Next]_vars PROVE ParamInv'
  OBVIOUS
<1>1. n \in 1 .. 9 /\ (ppc = "bad" => n \in 1 .. 4) /\ old \in Seq(Elements)
  BY RowsAre, BadAre DEF ProbeTypes, ProbeTypeOK
<1>2. p \in Params /\ PROBES[n].text \in Seq(Elements)
  BY <1>1, RowsFit DEF p
<1>3. ASSUME UNCHANGED pvars PROVE ParamInv'
  BY <1>3 DEF ParamInv, pvars, CbNotified, Loadable
<1>4. CASE ProbeStart \/ Stat \/ read_file \/ UNCHANGED vars
  BY <1>3, <1>4 DEF ProbeStart, Stat, read_file, vars
<1>5. CASE WriteTest
  <2>1. CASE MayWrite(p) /\ Store(p, PROBES[n].text)
    BY <2>1, <1>2, StoreInv DEF MayWrite
  <2> QED
    BY <2>1, <1>3, <1>5 DEF WriteTest
<1>6. CASE Restore
  <2>1. CASE Restorable /\ Store(p, old)
    BY <2>1, <1>1, <1>2, StoreInv DEF Restorable, MayWrite
  <2> QED
    BY <2>1, <1>3, <1>6 DEF Restore
<1>7. CASE WriteBad
  <2>1. bad[n].name \in Params /\ bad[n].text \in Seq(Elements)
    BY <1>1, <1>7, BadFits DEF WriteBad
  <2>2. CASE MayWrite(bad[n].name) /\ Store(bad[n].name, bad[n].text)
    BY <2>1, <2>2, StoreInv DEF MayWrite
  <2> QED
    BY <2>2, <1>3, <1>7 DEF WriteBad
<1>8. CASE Shell
  <2>1. CASE \E q \in Params, text \in Texts : (MayWrite(q) /\ Store(q, text)) \/ Insmod(q, text)
    <3>1. PICK q \in Params, text \in Texts : (MayWrite(q) /\ Store(q, text)) \/ Insmod(q, text)
      BY <2>1
    <3>2. 2 \in Elements /\ Blank \in Elements
      BY DEF Elements, Numbers
    <3>3. <<>> \in Seq(Elements) /\ <<2>> \in Seq(Elements) /\ <<2, Blank>> \in Seq(Elements)
          /\ <<Blank>> \in Seq(Elements)
      BY <3>2
    <3>4. text \in Seq(Elements)
      BY <3>3, TooManyIs DEF Texts
    <3> QED
      BY <3>1, <3>4, StoreInv, InsmodInv DEF MayWrite
  <2>2. CASE Rmmod
    BY <2>2, FreshInv
  <2> QED
    BY <2>1, <2>2, <1>8 DEF Shell
<1>9. CASE DeployNext
  <2>1. CASE Insmod("my_int", Default["my_int"])
    BY <2>1, InsmodInv, DefaultIs, ParamsAre
  <2>2. CASE Rmmod
    BY <2>2, FreshInv
  <2>3. CASE UNCHANGED pvars
    BY <2>3, <1>3
  <2> QED
    BY <2>1, <2>2, <2>3, <1>9 DEF DeployNext, DeployStart, Upload, MakeAll, InsmodKo, RmmodKo,
                                  Fetch, pvars
<1> QED
  BY <1>4, <1>5, <1>6, <1>7, <1>8, <1>9 DEF Next, ProbeNext

\* The probe at first.
LEMMA ProbeInitTypes == Init => ProbeTypes
<1>1. 1 \in 1 .. 9 /\ <<>> \in Seq(Elements)
  OBVIOUS
<1> QED
  BY <1>1, RowsAre DEF Init, ProbeInit, ProbeTypes, ProbeTypeOK

------------------------------------------------------------------------------
(* The probe when nobody disturbs it *)

\* Which files may be written and not read, or written whole.
LEMMA ModeIs ==
  /\ \A q \in Params : "w" \in Mode[q] /\ q \in Arrays => q = "my_arr"
  /\ \A q \in Params : "w" \in Mode[q] => ("r" \notin Mode[q] <=> q = "my_wo_int")
  /\ \A q \in {"my_int", "my_bool", "my_arr"} : "w" \in Mode[q]
BY DEF Params, Mode, Arrays

\* No parameter has two rows, and every one has a row.
LEMMA NamesAre ==
  /\ \A j, k \in 1 .. 9 : Names[j] = Names[k] => j = k
  /\ \A q \in Params : \E j \in 1 .. 9 : Names[j] = q
<1>1. /\ Names[1] = "my_int" /\ Names[2] = "my_ro_int" /\ Names[3] = "my_hidden"
      /\ Names[4] = "my_wo_int" /\ Names[5] = "my_bool" /\ Names[6] = "my_str"
      /\ Names[7] = "my_arr" /\ Names[8] = "my_ro_arr" /\ Names[9] = "cb_int"
  BY DEF Names
<1>2. \A j \in 1 .. 9 : j \in {1, 2, 3, 4, 5, 6, 7, 8, 9}
  OBVIOUS
<1>3. {1, 2, 3, 4, 5, 6, 7, 8, 9} \subseteq 1 .. 9
  OBVIOUS
<1>4. \A j, k \in 1 .. 9 : Names[j] = Names[k] => j = k
  BY <1>1, <1>2
<1>5. \A q \in Params : \E j \in {1, 2, 3, 4, 5, 6, 7, 8, 9} : Names[j] = q
  BY <1>1, ParamsAre
<1> QED
  BY <1>3, <1>4, <1>5

\* What the probe has left in the parameter of row j: the value it found, or the
\* test's where it could not or did not put the old one back.  The writable
\* array is no matter here: a refused value overwrites it in the end.
Touched(q) == root /\ "w" \in Mode[q]
Left(j) == Names[j] # "my_arr" \/ ~root =>
             val[Names[j]] = IF Touched(Names[j])
                                /\ (\/ Names[j] = "my_wo_int"
                                    \/ AsRead(Names[j], before[Names[j]]) = <<>>)
                             THEN <<1>>
                             ELSE IF Touched(Names[j])
                             THEN AsRead(Names[j], before[Names[j]])
                             ELSE before[Names[j]]
AsFound(j) == val[Names[j]] = before[Names[j]]

Undisturbed ==
  /\ up
  /\ \A q \in Params : before[q] \in Seq(Elements) /\ Fits(q, before[q])
  /\ ppc \in {"stat", "read", "write", "restore"} =>
       /\ \A j \in 1 .. n - 1 : Left(j)
       /\ \A j \in n + 1 .. 9 : AsFound(j)
  /\ ppc \in {"stat", "read", "write"} => AsFound(n)
  /\ ppc = "restore" => Touched(p) /\ (p \notin Arrays => val[p] = <<1>>)
  /\ ppc \in {"write", "restore"} => /\ rderr <=> "r" \notin Mode[p]
                                     /\ ~rderr => old = AsRead(p, before[p])
  /\ ppc \in {"bad", "done"} => \A j \in 1 .. 9 : Left(j)
  /\ ppc = "done" /\ root => val["my_arr"] = SubSeq(TooMany, 1, ArrMax)

SceneInv == /\ ppc = "start" => n = 1
            /\ quiet /\ ppc # "start" => Undisturbed

\* A number that its parser takes is stored, a value that fits already too, and
\* the values the probe tries last are refused - the long array but for as much
\* as there is room for.
LEMMA AfterIs ==
  ASSUME NEW q \in Params
  PROVE  /\ q \notin Arrays => After(q, <<1>>) = <<1>>
         /\ \A x \in Seq(Elements) : q \notin Arrays /\ Fits(q, x) => After(q, x) = x
         /\ q = "my_int" => After(q, <<Junk>>) = val[q]
         /\ q = "my_bool" => After(q, <<2>>) = val[q]
         /\ q = "my_arr" => After(q, TooMany) = SubSeq(TooMany, 1, ArrMax)
<1>1. \A x \in Seq(Elements) : q \notin Arrays /\ Fits(q, x) => After(q, x) = x
  BY AcceptedIs DEF After, Fits
<1>2. /\ 1 \in Elements /\ 2 \in Elements /\ Junk \in Elements
      /\ \A x \in Elements : /\ <<x>> \in Seq(Elements) /\ Len(<<x>>) = 1
                             /\ <<x>>[1] = x /\ <<x>> # <<>>
  BY DEF Elements, Numbers
<1>3. ASSUME q \notin Arrays PROVE After(q, <<1>>) = <<1>>
  <2>1. Accepts(q, 1) /\ Room(q) >= 1
    BY AcceptsIs, RoomIs
  <2>2. Fits(q, <<1>>)
    BY <2>1 DEF Fits
  <2> QED
    BY <1>1, <1>2, <1>3, <2>2
<1>4. ASSUME q = "my_int" PROVE After(q, <<Junk>>) = val[q]
  <2>1. ~Accepts(q, Junk)
    BY <1>4, AcceptsIs, JunkAssumption
  <2>2. ~Accepted(q, <<Junk>>)
    <3> DEFINE S == <<Junk>>
    <3>1. S \in Seq(Elements) /\ 1 \in 1 .. Len(S) /\ S[1] = Junk
      BY <1>2
    <3> HIDE DEF S
    <3>2. ~Accepted(q, S)
      BY <2>1, <3>1, AcceptedIs
    <3> QED
      BY <3>2 DEF S
  <2> QED
    BY <1>4, <2>2 DEF After, Arrays
<1>5. ASSUME q = "my_bool" PROVE After(q, <<2>>) = val[q]
  <2>1. ~Accepts(q, 2)
    BY <1>5, AcceptsIs
  <2>2. ~Accepted(q, <<2>>)
    <3> DEFINE S == <<2>>
    <3>1. S \in Seq(Elements) /\ 1 \in 1 .. Len(S) /\ S[1] = 2
      BY <1>2
    <3> HIDE DEF S
    <3>2. ~Accepted(q, S)
      BY <2>1, <3>1, AcceptedIs
    <3> QED
      BY <3>2 DEF S
  <2> QED
    BY <1>5, <2>2 DEF After, Arrays
<1>6. ASSUME q = "my_arr" PROVE After(q, TooMany) = SubSeq(TooMany, 1, ArrMax)
  <2>1. Room(q) = ArrMax /\ ArrMax \in Nat \ {0}
    BY <1>6, RoomIs, ArrAssumption DEF Arrays
  <2>2. \A j \in 1 .. ArrMax + 1 : Accepts(q, TooMany[j])
    BY <1>6, TooManyIs, AcceptsIs
  <2> DEFINE front == SubSeq(TooMany, 1, ArrMax)
  <2>3. Taken(q, TooMany) = ArrMax
    <3>1. Taken(q, TooMany) = Cardinality({j \in 1 .. Len(TooMany) :
                 j <= Room(q) /\ \A x \in 1 .. j : Accepts(q, TooMany[x])})
      BY DEF Taken
    <3>2. {j \in 1 .. ArrMax + 1 : j <= ArrMax /\ \A x \in 1 .. j : Accepts(q, TooMany[x])}
            = 1 .. ArrMax
      BY <2>1, <2>2
    <3>3. Cardinality(1 .. ArrMax) = ArrMax
      <4>1. 1 \in Int /\ ArrMax \in Int /\ (IF 1 > ArrMax THEN 0 ELSE ArrMax - 1 + 1) = ArrMax
        BY <2>1
      <4> QED
        BY <4>1, FS_Interval
    <3> QED
      BY <3>1, <3>2, <3>3, <2>1, TooManyIs
  <2> QED
    BY <1>6, <2>3 DEF After, Arrays
<1> QED
  BY <1>1, <1>3, <1>4, <1>5, <1>6

\* The next row, when this one is done with.
LEMMA NextRowInv ==
  ASSUME ProbeTypes, ProbeTypes', NextRow, up', before' = before, root' = root,
         \A q \in Params : before[q] \in Seq(Elements) /\ Fits(q, before[q]),
         \A j \in 1 .. n : Left(j)', \A j \in n + 1 .. 9 : AsFound(j)'
  PROVE  Undisturbed'
<1>1. n \in 1 .. 9 /\ n' \in 1 .. 9
  BY RowsAre DEF ProbeTypes, ProbeTypeOK
<1>2. CASE LastRow
  <2>1. ppc' = "bad" /\ n = 9
    BY <1>2, RowsAre DEF NextRow, LastRow
  <2> QED
    BY <2>1 DEF Undisturbed
<1>3. CASE ~LastRow
  <2>1. ppc' = "stat" /\ n' = n + 1 /\ n # 9
    BY <1>3, RowsAre DEF NextRow, LastRow
  <2>2. \A j \in 1 .. n' - 1 : Left(j)'
    BY <2>1, <1>1
  <2>3. AsFound(n)' /\ \A j \in n' + 1 .. 9 : AsFound(j)'
    <3>1. n' \in n + 1 .. 9
      BY <2>1, <1>1
    <3>2. val'[Names[n']] = before'[Names[n']]
      BY <3>1 DEF AsFound
    <3> QED
      BY <2>1, <3>2, <1>1 DEF AsFound
  <2> QED
    BY <2>1, <2>2, <2>3 DEF Undisturbed
<1> QED
  BY <1>2, <1>3

\* The probe's test value goes in.
LEMMA WriteTestInv ==
  ASSUME ParamInv, ProbeTypes, ProbeTypes', Undisturbed, WriteTest
  PROVE  Undisturbed'
<1>1. /\ n \in 1 .. 9 /\ p = Names[n] /\ p \in Params /\ ppc = "write"
      /\ PROBES[n].text \in Seq(Elements) /\ PROBES[n].text # <<>>
      /\ (p \notin Arrays => PROBES[n].text = <<1>>)
      /\ before' = before /\ root' = root
  BY RowsAre, RowsFit DEF ProbeTypes, ProbeTypeOK, p, WriteTest, NextRow
<1>2. /\ up /\ AsFound(n)
      /\ \A q \in Params : before[q] \in Seq(Elements) /\ Fits(q, before[q])
      /\ \A j \in 1 .. n - 1 : Left(j)
      /\ \A j \in n + 1 .. 9 : AsFound(j)
      /\ (rderr <=> "r" \notin Mode[p]) /\ (~rderr => old = AsRead(p, before[p]))
  BY <1>1 DEF Undisturbed
<1>3. CASE root /\ MayWrite(p) /\ Store(p, PROBES[n].text) /\ ppc' = "restore"
           /\ UNCHANGED <<root, n, old, rderr, before, quiet>>
  <2>1. up' /\ (\A r \in Params \ {p} : val'[r] = val[r]) /\ val'[p] = After(p, PROBES[n].text)
    BY <1>1, <1>2, <1>3, StoreDoes
  <2>2. p' = p
    BY <1>3 DEF p
  <2>3. p \notin Arrays => val'[p] = <<1>>
    BY <1>1, <2>1, AfterIs
  <2>4. Touched(p)
    BY <1>3 DEF Touched, MayWrite
  <2>5. \A j \in 1 .. 9 : j # n => val'[Names[j]] = val[Names[j]]
    BY <1>1, <2>1, NamesAre, RowsFit
  <2>6. \A j \in 1 .. n - 1 : Left(j)'
    <3> TAKE j \in 1 .. n - 1
    <3>1. j \in 1 .. 9 /\ j # n
      BY <1>1
    <3> QED
      BY <3>1, <1>1, <1>2, <2>5 DEF Left, Touched
  <2>7. \A j \in n + 1 .. 9 : AsFound(j)'
    <3> TAKE j \in n + 1 .. 9
    <3>1. j \in 1 .. 9 /\ j # n
      BY <1>1
    <3> QED
      BY <3>1, <1>1, <1>2, <2>5 DEF AsFound
  <2>8. Touched(p)'
    BY <1>3, <2>2, <2>4 DEF Touched
  <2> QED
    BY <1>1, <1>2, <1>3, <2>1, <2>2, <2>3, <2>6, <2>7, <2>8 DEF Undisturbed
<1>4. CASE ~(root /\ MayWrite(p)) /\ NextRow /\ UNCHANGED pvars
  <2>1. up' = up /\ val' = val
    BY <1>4 DEF pvars
  <2>2. ~Touched(p)
    BY <1>2, <1>4 DEF Touched, MayWrite
  <2>3. \A j \in 1 .. n : Left(j)'
    <3> TAKE j \in 1 .. n
    <3>1. CASE j = n
      BY <3>1, <1>1, <1>2, <2>1, <2>2 DEF Left, Touched, AsFound
    <3>2. CASE j # n
      <4>1. j \in 1 .. n - 1
        BY <3>2, <1>1
      <4> QED
        BY <4>1, <1>1, <1>2, <2>1 DEF Left, Touched
    <3> QED
      BY <3>1, <3>2
  <2>4. \A j \in n + 1 .. 9 : AsFound(j)'
    BY <1>1, <1>2, <2>1 DEF AsFound
  <2> QED
    BY <1>1, <1>2, <1>4, <2>1, <2>3, <2>4, NextRowInv
<1> QED
  BY <1>3, <1>4 DEF WriteTest

\* The probe puts back what it read.
LEMMA RestoreInv ==
  ASSUME ParamInv, ProbeTypes, ProbeTypes', Undisturbed, Restore
  PROVE  Undisturbed'
<1>1. /\ n \in 1 .. 9 /\ p = Names[n] /\ p \in Params /\ ppc = "restore" /\ NextRow
      /\ old \in Seq(Elements) /\ before' = before /\ root' = root
  BY RowsAre, RowsFit DEF ProbeTypes, ProbeTypeOK, p, Restore, NextRow
<1>2. /\ up /\ Touched(p) /\ (p \notin Arrays => val[p] = <<1>>)
      /\ \A q \in Params : before[q] \in Seq(Elements) /\ Fits(q, before[q])
      /\ \A j \in 1 .. n - 1 : Left(j)
      /\ \A j \in n + 1 .. 9 : AsFound(j)
      /\ (rderr <=> "r" \notin Mode[p]) /\ (~rderr => old = AsRead(p, before[p]))
  BY <1>1 DEF Undisturbed
<1>3. "w" \in Mode[p] /\ root /\ MayWrite(p)
  BY <1>2 DEF Touched, MayWrite
<1>4. rderr <=> p = "my_wo_int"
  BY <1>1, <1>2, <1>3, ModeIs
<1>5. p \in Arrays => p = "my_arr"
  BY <1>1, <1>3, ModeIs
<1>6. /\ up' = up /\ \A r \in Params \ {p} : val'[r] = val[r]
      /\ p \notin Arrays => val'[p] = IF p = "my_wo_int" \/ AsRead(p, before[p]) = <<>>
                                      THEN <<1>> ELSE AsRead(p, before[p])
  <2>1. CASE ~rderr
    <3>1. Store(p, old) /\ old = AsRead(p, before[p])
      BY <2>1, <1>2, <1>3 DEF Restore, Restorable
    <3>2. /\ up' = up /\ \A r \in Params \ {p} : val'[r] = val[r]
          /\ val'[p] = IF old = <<>> THEN val[p] ELSE After(p, old)
      BY <3>1, <1>1, StoreDoes
    <3>3. p \notin Arrays => After(p, old) = old
      BY <3>1, <1>1, <1>2, AsReadFits, AfterIs
    <3> QED
      BY <2>1, <3>1, <3>2, <3>3, <1>2, <1>4
  <2>2. CASE rderr
    <3>1. up' = up /\ val' = val
      BY <2>2 DEF Restore, Restorable, pvars
    <3> QED
      BY <2>2, <3>1, <1>2, <1>4
  <2> QED
    BY <2>1, <2>2
<1>7. \A j \in 1 .. 9 : j # n => val'[Names[j]] = val[Names[j]]
  BY <1>1, <1>6, NamesAre, RowsFit
<1>8. \A j \in 1 .. n : Left(j)'
  <2> TAKE j \in 1 .. n
  <2>1. CASE j = n
    <3>1. p # "my_arr" => p \notin Arrays
      BY <1>5
    <3> QED
      BY <2>1, <3>1, <1>1, <1>2, <1>3, <1>6 DEF Left, Touched
  <2>2. CASE j # n
    <3>1. j \in 1 .. n - 1 /\ j \in 1 .. 9
      BY <2>2, <1>1
    <3> QED
      BY <2>2, <3>1, <1>1, <1>2, <1>7 DEF Left, Touched
  <2> QED
    BY <2>1, <2>2
<1>9. \A j \in n + 1 .. 9 : AsFound(j)'
  <2> TAKE j \in n + 1 .. 9
  <2>1. j \in 1 .. 9 /\ j # n
    BY <1>1
  <2> QED
    BY <2>1, <1>1, <1>2, <1>7 DEF AsFound
<1> QED
  BY <1>1, <1>2, <1>6, <1>8, <1>9, NextRowInv

\* A refused text leaves what it had room for.
LEMMA WriteBadInv ==
  ASSUME ParamInv, ProbeTypes, Undisturbed, WriteBad
  PROVE  Undisturbed'
<1>1. /\ n \in 1 .. 4 /\ ppc = "bad" /\ before' = before /\ root' = root
      /\ bad[n].name \in {"my_int", "my_bool", "my_arr"}
      /\ bad[n].name \in Params /\ bad[n].text \in Seq(Elements)
  BY BadAre, BadFits DEF ProbeTypes, ProbeTypeOK, WriteBad
<1>2. /\ up /\ \A q \in Params : before[q] \in Seq(Elements) /\ Fits(q, before[q])
      /\ \A j \in 1 .. 9 : Left(j)
  BY <1>1 DEF Undisturbed
<1> DEFINE q == bad[n].name
           text == bad[n].text
<1>3. MayWrite(q)
  BY <1>1, <1>2, ModeIs DEF MayWrite
<1>4. \/ n \in {1, 2} /\ q = "my_int" /\ text = <<Junk>>
      \/ n = 3 /\ q = "my_bool" /\ text = <<2>>
      \/ n = 4 /\ q = "my_arr" /\ text = TooMany
  BY <1>1, BadAre DEF Row
<1>5. ppc' = IF n = 4 THEN "done" ELSE "bad"
  BY <1>1, BadAre DEF WriteBad
<1>6. CASE ~root
  <2>1. up' = up /\ val' = val
    BY <1>6 DEF WriteBad, pvars
  <2> QED
    BY <2>1, <1>1, <1>2, <1>5, <1>6 DEF Undisturbed, Left, Touched
<1>7. CASE root
  <2>1. Store(q, text)
    BY <1>3, <1>7 DEF WriteBad
  <2> HIDE DEF q, text
  <2>2. q \in Params /\ text \in Seq(Elements) /\ text # <<>>
    <3>1. <<Junk>> # <<>> /\ <<2>> # <<>> /\ TooMany # <<>>
      BY TooManyIs, ArrAssumption
    <3> QED
      BY <3>1, <1>1, <1>4 DEF q, text
  <2>3. /\ up' = up /\ \A r \in Params \ {q} : val'[r] = val[r]
        /\ val'[q] = After(q, text)
    BY <2>1, <2>2, StoreDoes
  <2>4. /\ q # "my_arr" => val'[q] = val[q]
        /\ q = "my_arr" => val'[q] = SubSeq(TooMany, 1, ArrMax)
    BY <1>4, <2>2, <2>3, AfterIs
  <2>5. \A j \in 1 .. 9 : Left(j)'
    <3> TAKE j \in 1 .. 9
    <3>1. Left(j) /\ Names[j] \in Params
      BY <1>2, RowsFit
    <3>2. Names[j] # "my_arr" => val'[Names[j]] = val[Names[j]]
      BY <2>3, <2>4, <3>1
    <3> QED
      BY <3>1, <3>2, <1>1, <1>7 DEF Left, Touched
  <2>6. ppc' = "done" => val'["my_arr"] = SubSeq(TooMany, 1, ArrMax)
    BY <1>4, <1>5, <2>4
  <2>7. ppc' \in {"bad", "done"}
    BY <1>5
  <2> QED
    BY <2>3, <2>5, <2>6, <2>7, <1>1, <1>2 DEF Undisturbed
<1> QED
  BY <1>6, <1>7

\* The steps that only look, and those of others that leave the module alone.
LEMMA LookInv ==
  ASSUME ParamInv, ProbeTypes, ProbeTypes', Undisturbed, Stat \/ read_file
  PROVE  Undisturbed'
<1>1. /\ n \in 1 .. 9 /\ p = Names[n] /\ p \in Params
      /\ before' = before /\ root' = root /\ up' = up /\ val' = val
      /\ ppc \in {"stat", "read"}
  BY RowsAre, RowsFit DEF ProbeTypes, ProbeTypeOK, p, Stat, read_file, NextRow, pvars
<1>2. /\ up /\ AsFound(n)
      /\ \A q \in Params : before[q] \in Seq(Elements) /\ Fits(q, before[q])
      /\ \A j \in 1 .. n - 1 : Left(j)
      /\ \A j \in n + 1 .. 9 : AsFound(j)
  BY <1>1 DEF Undisturbed
<1>3. \A j \in 1 .. n - 1 : Left(j)'
  BY <1>1, <1>2 DEF Left, Touched
<1>4. \A j \in n + 1 .. 9 : AsFound(j)'
  BY <1>1, <1>2 DEF AsFound
<1>5. CASE Mode[p] = {} /\ NextRow
  <2>1. \A j \in 1 .. n : j = n \/ j \in 1 .. n - 1
    BY <1>1
  <2>2. val'[Names[n]] = before'[Names[n]] /\ "w" \notin Mode[Names[n]]
    BY <1>1, <1>2, <1>5 DEF AsFound
  <2>3. \A j \in 1 .. n : Left(j)'
    BY <1>3, <2>1, <2>2 DEF Left, Touched
  <2> QED
    BY <1>1, <1>2, <1>4, <1>5, <2>3, NextRowInv
<1>6. CASE Stat /\ ppc' = "read" /\ n' = n
  BY <1>1, <1>2, <1>3, <1>4, <1>6 DEF Undisturbed, AsFound
<1>7. CASE read_file
  <2>1. ppc' = "write" /\ n' = n /\ p' = p
    BY <1>7 DEF read_file, p
  <2>2. rderr' <=> "r" \notin Mode[p]
    <3>1. rderr' <=> ~MayRead(p)
      BY <1>7, ZenonT(20) DEF read_file
    <3> QED
      BY <3>1, <1>2 DEF MayRead
  <2>3. ~rderr' => old' = AsRead(p, before'[p])
    BY <1>1, <1>2, <1>7, <2>2 DEF read_file, MayRead, AsFound
  <2>4. AsFound(n)'
    BY <1>1, <1>2, <2>1 DEF AsFound
  <2> QED
    BY <1>1, <1>2, <1>3, <1>4, <2>1, <2>2, <2>3, <2>4 DEF Undisturbed
<1> QED
  BY <1>2, <1>5, <1>6, <1>7 DEF Stat

\* Every step keeps the scene as the probe's rows say.
LEMMA SceneNext ==
  ParamInv /\ ProbeTypes /\ SceneInv /\ [Next]_vars => SceneInv'
<1> SUFFICES ASSUME ParamInv, ProbeTypes, SceneInv, [Next]_vars PROVE SceneInv'
  OBVIOUS
<1>0. ProbeTypes'
  BY ProbeTypesNext
<1>1. CASE ppc' = "start"
  <2>1. ppc = "start" /\ n' = n
    BY <1>1 DEF Next, ProbeNext, ProbeStart, Stat, NextRow, read_file, WriteTest, Restore,
                WriteBad, Disturbed, vars, probeVars
  <2> QED
    BY <1>1, <2>1 DEF SceneInv
<1>2. CASE ppc' # "start" /\ ProbeStart
  <2>1. /\ ppc = "start" /\ ppc' = "stat" /\ before' = val /\ quiet' = up
        /\ UNCHANGED <<pvars, root, n, old, rderr>>
    BY <1>2 DEF ProbeStart
  <2>2. n' = 1 /\ val' = val /\ up' = up
    BY <2>1 DEF SceneInv, pvars
  <2>3. SUFFICES ASSUME quiet' PROVE Undisturbed'
    BY <1>2 DEF SceneInv
  <2>4. up'
    BY <2>1, <2>2, <2>3
  <2>5. \A q \in Params : before'[q] \in Seq(Elements) /\ Fits(q, before'[q])
    BY <2>1 DEF ParamInv
  <2> QED
    BY <2>1, <2>2, <2>4, <2>5 DEF Undisturbed, Left, AsFound
<1>3. CASE ppc' # "start" /\ ProbeNext /\ ~ProbeStart
  <2>1. quiet' = quiet /\ ppc # "start"
    BY <1>3 DEF ProbeNext, Stat, NextRow, read_file, WriteTest, Restore, WriteBad
  <2>2. SUFFICES ASSUME quiet PROVE Undisturbed'
    BY <1>3, <2>1 DEF SceneInv
  <2>3. Undisturbed
    BY <2>1, <2>2 DEF SceneInv
  <2> QED
    BY <1>0, <1>3, <2>3, LookInv, WriteTestInv, RestoreInv, WriteBadInv DEF ProbeNext
<1>4. CASE ppc' # "start" /\ (Disturbed \/ UNCHANGED vars)
  <2>1. UNCHANGED <<root, ppc, n, old, rderr, before>>
    BY <1>4 DEF Disturbed, vars, probeVars
  <2>2. SUFFICES ASSUME quiet' PROVE Undisturbed'
    BY <1>4 DEF SceneInv
  <2>3. quiet /\ pvars' = pvars
    <3>1. CASE Disturbed
      BY <2>2, <3>1 DEF Disturbed
    <3>2. CASE UNCHANGED vars
      BY <2>2, <3>2 DEF vars, probeVars
    <3> QED
      BY <1>4, <3>1, <3>2
  <2>4. Undisturbed
    BY <1>4, <2>1, <2>3 DEF SceneInv
  <2>5. up' = up /\ val' = val /\ p' = p
    BY <2>1, <2>3 DEF pvars, p
  <2>6. \A j : (Left(j) <=> Left(j)') /\ (AsFound(j) <=> AsFound(j)')
    BY <2>1, <2>5 DEF Left, Touched, AsFound
  <2>7. AsFound(n) <=> AsFound(n)'
    BY <2>1, <2>5 DEF AsFound
  <2> QED
    BY <2>1, <2>4, <2>5, <2>6, <2>7 DEF Undisturbed, Touched
<1> QED
  BY <1>1, <1>2, <1>3, <1>4 DEF Next

------------------------------------------------------------------------------
(* deploy_module *)

\* Every step keeps what is built and what is on the board.
LEMMA DeployNextInv == DeployInv /\ [Next]_vars => DeployInv'
<1> SUFFICES ASSUME DeployInv, [Next]_vars PROVE DeployInv'
  OBVIOUS
<1>1. /\ dpc \in {"idle", "upload", "build", "insmod", "rmmod", "fetch"}
      /\ ver \in 0 .. MaxDeploys /\ src \in 0 .. ver /\ cleaned \in BOOLEAN
      /\ {ko, ran, fetched} \subseteq 0 .. ver \cup {None} /\ MaxDeploys \in Nat
      /\ dpc \in {"upload", "build"} => Nothing
      /\ dpc = "build" => src = ver
      /\ cleaned => {ko, ran, fetched} \subseteq {ver, None}
  BY DeployAssumption DEF DeployInv, DeployTypeOK
<1>2. ver \in 0 .. ver
  BY <1>1
<1>3. CASE UNCHANGED deployVars
  BY <1>3 DEF DeployInv, DeployTypeOK, Nothing, deployVars
<1>4. CASE DeployStart
  <2>1. ver' \in 0 .. MaxDeploys /\ 0 .. ver \subseteq 0 .. ver'
    BY <1>1, <1>4 DEF DeployStart
  <2>2. src \in 0 .. ver' /\ ko \in 0 .. ver' \cup {None}
    BY <1>1, <2>1
  <2> QED
    BY <1>4, <2>1, <2>2 DEF DeployStart, DeployInv, DeployTypeOK, Nothing
<1>5. CASE Upload
  <2>1. Nothing /\ Nothing' /\ src' \in 0 .. ver /\ dpc' \in {"build", "idle"}
        /\ (dpc' = "build" => src' = ver)
    BY <1>1, <1>2, <1>5 DEF Upload, Nothing
  <2> QED
    BY <1>1, <1>5, <2>1 DEF Upload, DeployInv, DeployTypeOK, Nothing
<1>6. CASE MakeAll
  <2>1. PICK clean \in BOOLEAN, made \in BOOLEAN : cleaned' = clean /\ ko' = Build(clean, made)
    BY <1>6 DEF MakeAll
  <2>2. src = ver /\ ran = None /\ fetched = None
    BY <1>1, <1>6 DEF MakeAll, Nothing
  <2>3. ko' \in {ver, None, ko} /\ (cleaned' => ko' \in {ver, None}) /\ cleaned' \in BOOLEAN
    BY <2>1, <2>2 DEF Build
  <2>4. dpc' \in {"insmod", "idle"} /\ ver' = ver /\ src' = src /\ ran' = ran /\ fetched' = fetched
    BY <1>6 DEF MakeAll
  <2> QED
    BY <1>1, <1>2, <2>2, <2>3, <2>4 DEF DeployInv, DeployTypeOK
<1>7. CASE InsmodKo \/ RmmodKo \/ Fetch
  <2>1. /\ dpc' \in {"rmmod", "idle", "fetch"} /\ ver' = ver /\ src' = src /\ ko' = ko
        /\ cleaned' = cleaned /\ ran' \in {ran, ko} /\ fetched' \in {fetched, ko, None}
    BY <1>7 DEF InsmodKo, RmmodKo, Fetch
  <2> QED
    BY <1>1, <2>1 DEF DeployInv, DeployTypeOK
<1> QED
  BY <1>3, <1>4, <1>5, <1>6, <1>7 DEF Next, DeployNext, Shell, vars

------------------------------------------------------------------------------
(* The theorems *)

IInv == ParamInv /\ ProbeTypes /\ SceneInv /\ DeployInv

\* All of it is invariant together: what the probe leaves rests on what a write
\* does to the module.
THEOREM ParamLabInv == Spec => []IInv
<1>1. Init => IInv
  <2> SUFFICES ASSUME Init PROVE IInv
    OBVIOUS
  <2>1. ParamInv /\ ProbeTypes
    BY FreshInv, ProbeInitTypes DEF Init
  <2>2. SceneInv
    BY DEF Init, ProbeInit, SceneInv
  <2>3. DeployInv
    <3>1. 0 \in 0 .. MaxDeploys /\ 0 \in 0 .. 0
      BY DeployAssumption
    <3> QED
      BY <3>1 DEF Init, DeployInit, DeployInv, DeployTypeOK, Nothing
  <2> QED
    BY <2>1, <2>2, <2>3 DEF IInv
<1>2. IInv /\ [Next]_vars => IInv'
  BY ParamNext, ProbeTypesNext, SceneNext, DeployNextInv DEF IInv
<1> QED
  BY <1>1, <1>2, PTL DEF Spec

\* Every parameter holds what its own parser takes, whoever writes what to it.
THEOREM ParamLabTypeCorrect == Spec => []TypeOK
<1>1. IInv => TypeOK
  <2> SUFFICES ASSUME IInv PROVE TypeOK
    OBVIOUS
  <2>1. ProbeTypeOK /\ DeployTypeOK
    BY DEF IInv, ProbeTypes, DeployInv
  <2>2. ASSUME NEW q \in Params
        PROVE  /\ Len(val[q]) = Taken(q, val[q])
               /\ q \notin Arrays => Accepted(q, val[q])
    <3>1. val[q] \in Seq(Elements) /\ Fits(q, val[q])
      BY DEF IInv, ParamInv
    <3>2. Len(val[q]) = Taken(q, val[q])
      BY <3>1, TakenIs DEF Fits
    <3>3. q \notin Arrays => Accepted(q, val[q])
      BY <3>1, AcceptedIs DEF Fits
    <3> QED
      BY <3>2, <3>3
  <2>3. ParamTypeOK
    BY <2>2 DEF IInv, ParamInv, ParamTypeOK
  <2> QED
    BY <2>1, <2>3 DEF TypeOK
<1> QED
  BY <1>1, ParamLabInv, PTL

\* The module hears of every change of cb_int, in order, with the value it had
\* before, and what it heard last is what the variable holds - whoever writes,
\* whatever is refused, however often it is reloaded (param_demo.c:157-175).
THEOREM CbNotifiedCorrect == Spec => []CbNotified
<1>1. IInv => CbNotified
  BY DEF IInv, ParamInv
<1> QED
  BY <1>1, ParamLabInv, PTL

\* A probe that nobody disturbs leaves each parameter with the value it found, a
\* string without the blanks at its end and what is too long to be read; but for
\* those it cannot read, a string of which nothing was left, and the array that
\* keeps as much of the refused text as it has room for (param_probe.c:80-86,
\* :155-175).
THEOREM SceneCleanCorrect == Spec => []SceneClean
<1>1. IInv => SceneClean
  <2> SUFFICES ASSUME IInv, ppc = "done", quiet, NEW q \in Params
               PROVE  val[q] = IF ~root \/ "w" \notin Mode[q] THEN before[q]
                               ELSE IF q = "my_arr" THEN SubSeq(TooMany, 1, ArrMax)
                               ELSE IF q = "my_wo_int" \/ AsRead(q, before[q]) = <<>>
                                    THEN (CHOOSE j \in {PROBES[k] : k \in DOMAIN PROBES} :
                                            j.name = q).text
                               ELSE AsRead(q, before[q])
    BY DEF SceneClean
  <2>1. Undisturbed
    BY DEF IInv, SceneInv
  <2>2. PICK k \in 1 .. 9 : Names[k] = q
    BY NamesAre
  <2>3. Left(k) /\ (root => val["my_arr"] = SubSeq(TooMany, 1, ArrMax))
    BY <2>1 DEF Undisturbed
  <2>4. "w" \in Mode[q] /\ q # "my_arr" => q \notin Arrays
    BY ModeIs
  <2> DEFINE Table == {PROBES[j] : j \in DOMAIN PROBES}
             found == CHOOSE j \in Table : j.name = q
  <2>5. found = PROBES[k]
    <3>1. PROBES[k] \in Table /\ PROBES[k].name = q
      <4>1. PROBES[k].name = q
        BY <2>2, RowsFit
      <4>2. k \in DOMAIN PROBES
        BY RowsAre
      <4> QED
        BY <4>1, <4>2
    <3>2. ASSUME NEW j \in Table, j.name = q PROVE j = PROBES[k]
      <4>1. PICK i \in 1 .. 9 : j = PROBES[i]
        <5>1. DOMAIN PROBES = 1 .. 9
          BY RowsAre
        <5> QED
          BY <5>1
      <4>2. Names[i] = q
        BY <3>2, <4>1, RowsFit
      <4>3. i = k
        BY <2>2, <4>2, NamesAre
      <4> QED
        BY <4>1, <4>3
    <3> HIDE DEF Table
    <3> QED
      BY <3>1, <3>2
  <2>6. q \notin Arrays => found.text = <<1>>
    BY <2>2, <2>5, RowsFit
  <2> HIDE DEF found, Table
  <2>7. val[q] = IF ~root \/ "w" \notin Mode[q] THEN before[q]
                 ELSE IF q = "my_arr" THEN SubSeq(TooMany, 1, ArrMax)
                 ELSE IF q = "my_wo_int" \/ AsRead(q, before[q]) = <<>> THEN found.text
                 ELSE AsRead(q, before[q])
    <3>1. CASE ~root \/ "w" \notin Mode[q]
      <4>1. val[q] = before[q]
        BY <2>2, <2>3, <3>1, ModeIs DEF Left, Touched
      <4> QED
        BY <3>1, <4>1
    <3>2. CASE root /\ "w" \in Mode[q] /\ q = "my_arr"
      BY <2>3, <3>2
    <3>3. CASE root /\ "w" \in Mode[q] /\ q # "my_arr"
      <4>1. val[q] = IF q = "my_wo_int" \/ AsRead(q, before[q]) = <<>> THEN <<1>>
                     ELSE AsRead(q, before[q])
        BY <2>2, <2>3, <3>3 DEF Left, Touched
      <4>2. found.text = <<1>>
        BY <2>4, <2>6, <3>3
      <4> QED
        BY <3>3, <4>1, <4>2
    <3> QED
      BY <3>1, <3>2, <3>3
  <2> QED
    BY <2>7 DEF found, Table
<1> QED
  BY <1>1, ParamLabInv, PTL

\* After a successful make clean, what is loaded and what is fetched was built
\* from the sources just uploaded, whatever of the later steps fails
\* (deploy_module.py:110).
THEOREM FreshIfCleanedCorrect == Spec => []FreshIfCleaned
<1>1. IInv => FreshIfCleaned
  BY DEF IInv, DeployInv, FreshIfCleaned
<1> QED
  BY <1>1, ParamLabInv, PTL
==============================================================================
