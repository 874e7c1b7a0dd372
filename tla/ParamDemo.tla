------------------------------ MODULE ParamDemo ------------------------------
(***************************************************************************)
(* 03-module-param/param_demo.c: nine parameters of a module, set at       *)
(* insmod and through sysfs.  A value, and a text that is written, is the  *)
(* sequence of its elements: one for a number or a string, up to ArrMax    *)
(* for an array.  What a write does to a parameter is the kernel's parser  *)
(* (kernel/params.c), but for cb_int, which has a callback of its own.     *)
(***************************************************************************)
EXTENDS Naturals, Sequences, FiniteSets

CONSTANTS ArrMax,  \* elements an array has room for (8)
          Junk     \* an element no parser takes

ASSUME ArrAssumption == ArrMax \in Nat \ {0}

VARIABLES up,    \* the module is loaded
          val,   \* its parameters
          notes  \* what cb_int_set has printed since insmod: pairs <<old, new>>

pvars == <<up, val, notes>>

Numbers == 0 .. 2

ASSUME JunkAssumption == Junk \notin Numbers

Mode == [ my_int    |-> {"r", "w"}, my_ro_int |-> {"r"}, my_hidden |-> {},
          my_wo_int |-> {"w"},      my_bool   |-> {"r", "w"},
          my_str    |-> {"r", "w"}, my_arr    |-> {"r", "w"},
          my_ro_arr |-> {"r"},      cb_int    |-> {"r", "w"} ]
Params == DOMAIN Mode
Arrays == {"my_arr", "my_ro_arr"}

\* The initial values in the source: the arrays' counts are 0.
Default == [p \in Params |-> IF p \in Arrays THEN <<>>
                             ELSE IF p \in {"my_ro_int", "my_wo_int", "my_str"}
                                  THEN <<2>> ELSE <<0>>]

------------------------------------------------------------------------------
(* The parsers *)

Accepts(p, x) == CASE p = "my_str" -> TRUE
                   [] p = "my_bool" -> x \in {0, 1}
                   [] OTHER -> x \in Numbers

\* A string is stored as it is, whatever its length here.
Room(p) == CASE p \in Arrays -> ArrMax [] p = "my_str" -> ArrMax + 1 [] OTHER -> 1

\* Elements taken before the first that is refused or for which no room is.
Taken(p, text) ==
  Cardinality({j \in 1 .. Len(text) :
                 j <= Room(p) /\ \A x \in 1 .. j : Accepts(p, text[x])})

\* The empty text is no number.
Accepted(p, text) == /\ Taken(p, text) = Len(text)
                     /\ text # <<>> \/ p = "my_str"

\* An array is set element by element, its count first to 0 and then along: a
\* refused text leaves the elements before.  Other parameters keep their value.
After(p, text) == IF p \in Arrays THEN SubSeq(text, 1, Taken(p, text))
                  ELSE IF Accepted(p, text) THEN text ELSE val[p]

\* (seeded fault: the error is not looked at)
HeardAnyway(text) == TRUE
Heard(text) == Accepted("cb_int", text)

\* cb_int_set: param_set_int first, whose error is returned as it is.
cb_int_set(text) ==
  notes' = IF Heard(text) THEN Append(notes, <<val["cb_int"], text>>) ELSE notes

\* A write to the parameter's file, under kernel_param_lock; one of no bytes
\* (sysfs) does nothing.
Store(p, text) ==
  /\ IF text = <<>> THEN UNCHANGED <<val, notes>>
     ELSE /\ val' = [val EXCEPT ![p] = After(p, text)]
          /\ IF p = "cb_int" THEN cb_int_set(text) ELSE UNCHANGED notes
  /\ UNCHANGED up

------------------------------------------------------------------------------
(* Loading *)

ParamInit == up = FALSE /\ val = Default /\ notes = <<>>

\* param_init prints.  A text that is refused refuses the module, whatever the
\* parser has stored by then.
Insmod(p, text) ==
  /\ ~up /\ Accepted(p, text)
  /\ up' = TRUE
  /\ val' = [Default EXCEPT ![p] = text]
  /\ IF p = "cb_int" THEN cb_int_set(text) ELSE UNCHANGED notes

\* param_exit prints; a file of sysfs does not keep the module.
Rmmod ==
  /\ up /\ up' = FALSE
  /\ val' = Default /\ notes' = <<>>

\* kernfs asks for the file's own mode bits, of root too.
MayRead(p)  == up /\ "r" \in Mode[p]
\* (seeded fault: CAP_DAC_OVERRIDE is enough)
MayWriteAsRoot(p) == up /\ Mode[p] # {}
MayWrite(p) == up /\ "w" \in Mode[p]

ParamTypeOK ==
  /\ up \in BOOLEAN
  /\ DOMAIN val = Params
  /\ \A p \in Params : Len(val[p]) = Taken(p, val[p])
  /\ \A p \in Params \ Arrays : Accepted(p, val[p])

\* The module hears of every change of cb_int, in order and with the value it
\* had before, whoever writes and whatever is refused in between; what it was
\* told last is what the variable holds (param_demo.c:157-175).
CbNotified ==
  /\ \A j \in DOMAIN notes :
       notes[j][1] = IF j = 1 THEN Default["cb_int"] ELSE notes[j - 1][2]
  /\ val["cb_int"] = IF notes = <<>> THEN Default["cb_int"]
                     ELSE notes[Len(notes)][2]
==============================================================================
