----------------------------- MODULE MCSysctl ------------------------------
(* Two-element tables of each handler, at int/long widths of 16 and 24   *)
(* bits.  Characters are one-character strings.                          *)
EXTENDS Sysctl

(* Modes are octal in the code: 420 is 0644, 292 is 0444, 128 is 0200.  *)
MCTables ==
  {[handler |-> h, n |-> 2, min |-> 0, max |-> 10, mode |-> 420] :
     h \in {"dointvec", "jiffies", "minmax"}}
  \cup {[handler |-> "dointvec", n |-> 2, min |-> 0, max |-> 0, mode |-> m] : m \in {292, 128}}

(* Values a module may start a table with, and the words typed.          *)
MCValues == {0, 100, 32767}
(* 65541 is 2^16 + 5: as an int of IntBits bits it is 5.                 *)
MCWords == {<<"1", "2">>, <<"0", "1", "0">>, <<"x">>,
            <<"6", "5", "5", "4", "1">>}

(* Negative elements, for the sign handling of the write half.           *)
MCNegValues == {0, -1, 7}
MCNegWords == {<<"5">>}

(* The most negative int, for the sign handling of the read half.        *)
MCIntMinValues == {0, -32768}

====
