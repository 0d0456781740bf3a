------------------------------ MODULE Sysctl -------------------------------
(***************************************************************************)
(* The integer sysctl files of nfsim's /proc emulation,                    *)
(* src/kernelenv/proc_stuff.c: `proc cat` and `proc write` on an entry     *)
(* registered by register_sysctl_table, through do_rw_proc to the          *)
(* handlers proc_dointvec, proc_dointvec_jiffies and proc_dointvec_minmax, *)
(* which all run do_proc_dointvec with their own conversion.               *)
(*                                                                         *)
(* The text is modelled character by character, because the properties   *)
(* are about the conversion.  Machine integers keep their wrap-around, at *)
(* reduced widths: int has IntBits bits, unsigned long LongBits, and the   *)
(* parse buffer TMPBUFLEN characters.  The real build has 32, 64 and 21:   *)
(* ULONG_MAX has TMPBUFLEN - 1 digits, a relation the constants keep.      *)
(***************************************************************************)
EXTENDS Integers, Sequences, SequencesExt, FiniteSets, Bitwise

CONSTANTS
  IntBits, LongBits, TMPBUFLEN,
  HZ,        \* jiffies per second
  CatLen,    \* nfsim_proc_cat's buffer: sizeof(buf) - 1
  Tables,    \* the ctl_table entries: handler, length, min, max, mode
  Values,    \* initial element values
  Words      \* the argument words a `proc write` line may have

ULONG == 2^LongBits
INT_MIN == -(2^(IntBits - 1))
INT_MAX == 2^(IntBits - 1) - 1
EINVAL == 22
EPERM == 1

(* (int) of an unsigned long, and (unsigned long) of an int.              *)
ToInt(x) == LET y == x % 2^IntBits IN IF y > INT_MAX THEN y - 2^IntBits ELSE y
ToULong(v) == v % ULONG

Digit == <<"0", "1", "2", "3", "4", "5", "6", "7", "8", "9">>
DigitChars == Range(Digit)
DigitVal(c) == CHOOSE d \in 0..9 : Digit[d + 1] = c
IsSpace(c) == c \in {" ", "\t", "\n"}

VARIABLES
  tbl,      \* the ctl_table of the file
  data,     \* the int array table->data
  out,      \* what the last `proc cat` printed
  catData,  \* ghost: the array that cat printed
  last      \* ghost: the last `proc write`: its words, the array before, result

vars == <<tbl, data, out, catData, last>>

-----------------------------------------------------------------------------
(* simple_strtoul is glibc strtoul with base 0, called on a digit: "0x"   *)
(* and a hex digit start base 16, another leading "0" base 8, else base   *)
(* 10.  It saturates at ULONG_MAX.  Returns the value and the index of    *)
(* the first character not used.                                          *)
RECURSIVE Accum(_, _, _, _)
Accum(buf, k, base, acc) ==
  IF k <= Len(buf) /\ buf[k] \in DigitChars /\ DigitVal(buf[k]) < base
  THEN Accum(buf, k + 1, base, Min({acc * base + DigitVal(buf[k]), ULONG}))
  ELSE [val |-> Min({acc, ULONG - 1}), end |-> k]

strtoul(buf, k) ==
  CASE buf[k] # "0"                             -> Accum(buf, k, 10, 0)
    [] k + 2 <= Len(buf) /\ buf[k + 1] \in {"x", "X"}
                        /\ buf[k + 2] \in DigitChars -> Accum(buf, k + 2, 16, 0)
    [] OTHER                                     -> Accum(buf, k + 1, 8, 0)

(* sprintf("%lu").                                                        *)
RECURSIVE Decimal(_)
Decimal(n) == IF n < 10 THEN <<Digit[n + 1]>>
              ELSE Decimal(n \div 10) \o <<Digit[(n % 10) + 1]>>

(* The conversions, write direction: the int stored for "-"? and lval, or *)
(* FALSE when do_proc_dointvec_minmax_conv rejects it.  Negation and       *)
(* lval * HZ are unsigned long arithmetic.                                *)
(* Mutant: the minmax range compared on the unsigned long, before the    *)
(* cast to int.                                                           *)
ConvWriteLong(t, neg, lval) ==
  LET v == ToInt(IF neg THEN ToULong(-lval) ELSE lval)
      s == IF neg THEN -lval ELSE lval
  IN  [ok |-> t.handler # "minmax" \/ ~(s < t.min \/ s > t.max),
       val |-> IF t.handler = "jiffies"
               THEN ToInt(IF neg THEN ToULong(-(lval * HZ)) ELSE ToULong(lval * HZ))
               ELSE v]

ConvWrite(t, neg, lval) ==
  CASE t.handler = "dointvec" ->
         [ok |-> TRUE, val |-> ToInt(IF neg THEN ToULong(-lval) ELSE lval)]
    [] t.handler = "jiffies" ->
         [ok |-> TRUE, val |-> ToInt(IF neg THEN ToULong(-(lval * HZ))
                                            ELSE ToULong(lval * HZ))]
    [] t.handler = "minmax" ->
         LET v == ToInt(IF neg THEN ToULong(-lval) ELSE lval)
         IN  [ok |-> ~(v < t.min \/ v > t.max), val |-> v]

(* Read direction: sign and magnitude.  -val is int arithmetic, which     *)
(* wraps for INT_MIN (undefined; gcc's code wraps), and the (unsigned     *)
(* long) cast sign-extends.                                               *)
(* Mutant: jiffies printed without the division by HZ.                    *)
ConvReadNoHZ(t, val) ==
  [neg |-> val < 0, lval |-> IF val < 0 THEN ToULong(ToInt(-val)) ELSE val]

ConvRead(t, val) ==
  LET mag == IF val < 0 THEN ToULong(ToInt(-val)) ELSE val
  IN  [neg  |-> val < 0,
       lval |-> IF t.handler = "jiffies" THEN mag \div HZ ELSE mag]

-----------------------------------------------------------------------------
(* do_proc_dointvec, read: each element as "\t"? "-"? digits, formatted   *)
(* into buf[TMPBUFLEN] and copied up to `left`; then "\n".  The result     *)
(* also says whether some sprintf wrote past buf (its length plus NUL).    *)
(* Mutant: elements separated by a space instead of a tab.                *)
RECURSIVE ReadLoopSpace(_, _, _, _, _, _, _)
ReadLoopSpace(t, vec, txt, left, first, idx, ovf) ==
  IF left > 0 /\ idx <= Len(vec)
  THEN LET c   == ConvRead(t, vec[idx])
           buf == (IF first THEN <<>> ELSE <<" ">>)
                    \o (IF c.neg THEN <<"-">> ELSE <<>>) \o Decimal(c.lval)
           len == Min({Len(buf), left})
       IN  ReadLoopSpace(t, vec, txt \o SubSeq(buf, 1, len), left - len, FALSE,
                         idx + 1, ovf \/ Len(buf) + 1 > TMPBUFLEN)
  ELSE [text |-> IF ~first /\ left > 0 THEN txt \o <<"\n">> ELSE txt,
        overflow |-> ovf]

RECURSIVE ReadLoop(_, _, _, _, _, _, _)
ReadLoop(t, vec, txt, left, first, idx, ovf) ==
  IF left > 0 /\ idx <= Len(vec)
  THEN LET c   == ConvRead(t, vec[idx])
           buf == (IF first THEN <<>> ELSE <<"\t">>)
                    \o (IF c.neg THEN <<"-">> ELSE <<>>) \o Decimal(c.lval)
           len == Min({Len(buf), left})
       IN  ReadLoop(t, vec, txt \o SubSeq(buf, 1, len), left - len, FALSE, idx + 1,
                    ovf \/ Len(buf) + 1 > TMPBUFLEN)
  ELSE [text |-> IF ~first /\ left > 0 THEN txt \o <<"\n">> ELSE txt,
        overflow |-> ovf]

(* Skip white space from pos while left > 0.                              *)
RECURSIVE SkipSpace(_, _, _)
SkipSpace(txt, pos, left) ==
  IF left > 0 /\ IsSpace(txt[pos]) THEN SkipSpace(txt, pos + 1, left - 1)
  ELSE [pos |-> pos, left |-> left]

(* do_proc_dointvec, write: one iteration per element, from the state     *)
(* w = [pos, left, vleft, first, idx, vec]; a `break` returns w as it    *)
(* stands.                                                                *)
RECURSIVE WriteLoop(_, _, _)
WriteLoop(t, txt, w) ==
  IF w.left = 0 \/ w.vleft = 0 THEN w
  ELSE
  LET sp    == SkipSpace(txt, w.pos, w.left)
      len0  == Min({sp.left, TMPBUFLEN - 1})
      buf   == SubSeq(txt, sp.pos, sp.pos + len0 - 1)
      neg   == sp.left > 0 /\ buf[1] = "-" /\ sp.left > 1
      left1 == IF neg THEN sp.left - 1 ELSE sp.left
      p     == IF neg THEN 2 ELSE 1
      brk   == [w EXCEPT !.pos = sp.pos, !.left = left1]
  IN
  IF sp.left = 0 THEN brk
  ELSE IF p > len0 \/ buf[p] \notin DigitChars THEN brk
  ELSE
  LET r   == strtoul(buf, p)
      len == r.end - 1
      c   == ConvWrite(t, neg, r.val)
      w2  == [w EXCEPT !.pos = sp.pos + len, !.left = left1 - len]
  IN
  IF len < left1 /\ r.end <= len0 /\ ~IsSpace(buf[r.end]) THEN brk
  ELSE IF ~c.ok THEN w2
  ELSE WriteLoop(t, txt, [w2 EXCEPT !.vleft = @ - 1, !.first = FALSE,
                                     !.idx = @ + 1, !.vec[w.idx] = c.val])

(* The trailing white space loop: the `left` it leaves.                   *)
RECURSIVE TrailLeft(_, _, _)
TrailLeft(txt, pos, left) ==
  IF left > 0 /\ IsSpace(txt[pos]) THEN TrailLeft(txt, pos + 1, left - 1)
  ELSE left

-----------------------------------------------------------------------------
(* nfsim_proc_write joins the argument words with single spaces.  (The   *)
(* folds here are recursive rather than SequencesExt's FoldLeft, whose     *)
(* TLA+ definition is slow at the rate they run.)                         *)
RECURSIVE Join(_)
Join(words) ==
  IF Len(words) <= 1 THEN IF words = <<>> THEN <<>> ELSE words[1]
  ELSE words[1] \o <<" ">> \o Join(Tail(words))

(* The words of a text, split at white space, as the TUI splits a line.   *)
RECURSIVE Split(_, _, _)
Split(txt, ws, cur) ==
  LET done == IF cur = <<>> THEN ws ELSE Append(ws, cur) IN
  CASE txt = <<>>         -> done
    [] IsSpace(Head(txt)) -> Split(Tail(txt), done, <<>>)
    [] OTHER              -> Split(Tail(txt), ws, Append(cur, Head(txt)))

Tokens(txt) == Split(txt, <<>>, <<>>)

(* A ctl_table: handler, number of ints (maxlen / sizeof(int)), extra1 and *)
(* extra2 for minmax, and whether its mode has the owner write bit.       *)
Table == [handler : {"dointvec", "jiffies", "minmax"}, n : Nat \ {0},
          min : Int, max : Int, mode : 0..511]

(* The module that registered the table set values within extra1..extra2 *)
(* for a minmax table.                                                     *)
InRange(t, vec) ==
  t.handler = "minmax" => \A i \in DOMAIN vec : t.min <= vec[i] /\ vec[i] <= t.max

Init ==
  /\ tbl \in Tables
  /\ data \in {v \in [1..tbl.n -> Values] : InRange(tbl, v)}
  /\ out = <<>>
  /\ catData = [vec |-> data, overflow |-> FALSE]
  /\ last = [words |-> <<>>, echo |-> FALSE, ret |-> 0, before |-> data]

(* S_IWUSR: nfsim_proc_open refuses to open for writing an entry without *)
(* it (dir->mode & 0200), and so would proc_opensys.                       *)
Opens(t, write) == ~write \/ t.mode & 128 # 0

(* test_perm through ctl_perm: the owner bits of table->mode hold op      *)
(* (004 read, 002 write).                                                  *)
TestPerm(mode, op) == shiftR(mode, 6) & op & 7 = op

(* do_rw_proc, for a file of a registered table (de->data and the        *)
(* handler are set, so no -ENOTDIR): -EPERM, or the handler runs.         *)
DoRwProc(t, write) == IF TestPerm(t.mode, IF write THEN 2 ELSE 4) THEN 0 ELSE -EPERM

(* proc cat: nfsim_proc_open (read), proc_opensys, proc_readsys ->        *)
(* do_rw_proc(0) -> handler with *lenp = CatLen at *ppos = 0; printk of   *)
(* the ret characters.  When do_rw_proc refuses, nothing is printed.      *)
Cat ==
  LET r == ReadLoop(tbl, data, <<>>, CatLen, TRUE, 1, FALSE) IN
  /\ IF DoRwProc(tbl, FALSE) = 0
     THEN /\ out' = r.text
          /\ catData' = [vec |-> data, overflow |-> r.overflow]
     ELSE /\ out' = <<>>
          /\ UNCHANGED catData
  /\ UNCHANGED <<tbl, data, last>>

(* proc write: nfsim_proc_open fails unless the entry is writable;        *)
(* proc_writesys -> do_rw_proc(1), which may refuse: -EPERM;              *)
(* proc_writesys -> do_rw_proc(1) -> handler with the joined words, then  *)
(* the trailing white-space loop; -EINVAL when no element was stored,     *)
(* else the count consumed (which nfsim_proc_write does not compare).     *)
Write(words) ==
  LET txt == Join(words)
      r   == WriteLoop(tbl, txt, [pos |-> 1, left |-> Len(txt), vleft |-> tbl.n,
                                  first |-> TRUE, idx |-> 1, vec |-> data])
  IN
  /\ Opens(tbl, TRUE)
  /\ DoRwProc(tbl, TRUE) = 0
  /\ data' = r.vec
  /\ last' = [words |-> words, echo |-> words = Tokens(out) /\ out # <<>>,
              ret |-> IF r.first THEN -EINVAL
                      ELSE Len(txt) - TrailLeft(txt, r.pos, r.left),
              before |-> data]
  /\ UNCHANGED <<tbl, out, catData>>

(* The lines a user types: one word more than the table holds, at most.   *)
WordLists == UNION {[1..k -> Words] : k \in 1..2}

Next ==
  \/ Cat
  \/ \E ws \in (WordLists \cup {Tokens(out)}) \ {<<>>} : Write(ws)

Spec == Init /\ [][Next]_vars

-----------------------------------------------------------------------------
TypeOK ==
  /\ tbl \in Table
  /\ data \in [1..tbl.n -> INT_MIN..INT_MAX]
  /\ out \in Seq(DigitChars \cup {"-", "\t", "\n"})
  /\ last.ret \in Nat \cup {-EINVAL}

(* What `proc cat` shows of an element, in the file's unit, as a value:   *)
(* jiffies are shown in whole seconds, rounded toward zero.               *)
Shown(t, v) ==
  IF t.handler = "jiffies"
  THEN IF v < 0 THEN -((-v) \div HZ) * HZ ELSE (v \div HZ) * HZ
  ELSE v

(* Typing back what `proc cat` printed, as `proc write` arguments, puts   *)
(* back the array cat showed (in the file's unit), whatever was written   *)
(* in between, and the whole text is consumed.  This is what the read and *)
(* write halves of do_proc_dointvec and its conversions promise each      *)
(* other.                                                                 *)
EchoRestores ==
  last.echo =>
     /\ data = [i \in DOMAIN catData.vec |-> Shown(tbl, catData.vec[i])]
     /\ last.ret = Len(Join(last.words))

(* What an argument word of digits, "-"? and a C base-0 number (a leading *)
(* "0" means octal), stores in an int of the table: the number times HZ  *)
(* for jiffies, reduced to IntBits bits; and whether the file takes it,   *)
(* which for minmax is that stored int lying in extra1..extra2.           *)
RECURSIVE Number(_, _)
Number(d, base) ==
  IF d = <<>> THEN 0 ELSE Number(Front(d), base) * base + DigitVal(Last(d))

Signed(w) ==
  LET neg  == Len(w) > 1 /\ w[1] = "-"
      d    == IF neg THEN Tail(w) ELSE w
      base == IF Len(d) > 1 /\ d[1] = "0" THEN 8 ELSE 10
      num  == d # <<>> /\ \A i \in DOMAIN d : d[i] \in DigitChars
  IN  [num |-> num,
       val |-> IF num THEN (IF neg THEN -1 ELSE 1)
                 * Number(d, base) ELSE 0]

IntOf(t, w) == ToInt(Signed(w).val * (IF t.handler = "jiffies" THEN HZ ELSE 1))

Takes(t, w) ==
  /\ Signed(w).num
  /\ t.handler = "minmax" => t.min <= IntOf(t, w) /\ IntOf(t, w) <= t.max

(* A `proc write` of numeric words stores the (int) of the first k words  *)
(* in the first k elements and leaves the others as they were, where the  *)
(* (k+1)-th word is the first the file refuses or there is no room; it    *)
(* reports -EINVAL exactly when k = 0.  So a write whose later word is    *)
(* refused still succeeds with a prefix applied (the partial write of     *)
(* do_proc_dointvec's loop), and a minmax word out of range as a number   *)
(* is taken when its truncation to int is in range.                      *)
WriteApplied ==
  LET ws == last.words
      k  == CHOOSE j \in 0..Min({tbl.n, Len(ws)}) :
              /\ \A i \in 1..j : Takes(tbl, ws[i])
              /\ j < Min({tbl.n, Len(ws)}) => ~Takes(tbl, ws[j + 1])
  IN  ws # <<>> =>
        /\ \A i \in 1..tbl.n :
              data[i] = IF i <= k THEN IntOf(tbl, ws[i]) ELSE last.before[i]
        /\ (last.ret = -EINVAL) <=> (k = 0)

(* The sprintf of an element in the read half of do_proc_dointvec, "\t",  *)
(* sign, digits and NUL, fits buf[TMPBUFLEN].                              *)
NoFormatOverflow == ~catData.overflow

====
