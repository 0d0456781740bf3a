----------------------------- MODULE MCProcTree -----------------------------
(* Two sysctl tables that share the directory d under /proc/sys, and a   *)
(* module creating entries named x under /proc, /proc/net or its own      *)
(* directories.                                                           *)
EXTENDS ProcTree

File(n) == [procname |-> n, handler |-> TRUE, child |-> <<>>]
Dir(n, kids) == [procname |-> n, handler |-> FALSE, child |-> kids]

MCTables == {"T1", "T2"}
MCTableDef ==
  [t \in MCTables |->
     IF t = "T1" THEN << Dir(<<"d">>, << File(<<"f">>) >>) >>
     ELSE << Dir(<<"d">>, << File(<<"g">>) >>), File(<<"h">>) >>]

MCNames == {<<"x">>}

(* A name with a path, created with a NULL parent, as 2.4-era modules    *)
(* do for "net/..." entries.                                              *)
MCPathNames == {<<"n", "e", "t", "/", "x">>}

(* The module's entry reached as /proc/x, /proc/net/x and /proc/x/x.     *)
MCCatPaths == {<<"x">>, <<"n", "e", "t", "/", "x">>, <<"x", "/", "x">>}

(* Routines of each convention, over files longer than a block, and      *)
(* longer than buf where the convention allows: bytes 1..L; records of   *)
(* three bytes.  With PAGE_SIZE 8 for 4096, PROC_BLOCK_SIZE is 6 and     *)
(* nbytes 31 (16383 = 4 PAGE_SIZE - 1).                                   *)
Bytes(l) == [i \in 1..l |-> i]
MCReaders ==
  { [conv |-> "page", data |-> Bytes(7)],
    [conv |-> "records", recs |-> [i \in 1..11 |-> <<3*i - 2, 3*i - 1, 3*i>>]],
    [conv |-> "at", off |-> 1, data |-> Bytes(34)],
    [conv |-> "info", off |-> 0, data |-> Bytes(13)],
    [conv |-> "fail"],
    [conv |-> "none"] }
====
