------------------------------- MODULE Listing -------------------------------
(***************************************************************************)
(* The four parsers of what "VBoxManage list hostonlyifs" (and bridgedifs) *)
(* prints: of the data sources virtualbox_network and virtualbox_host_info, *)
(* of internal/vboxmanage, and of the host-only network resource. They read *)
(* blocks of "key: value" lines. A step is a line of the text and a round  *)
(* of the loop of each parser; a value is a number, 0 for a key that is    *)
(* not there.                                                              *)
(***************************************************************************)
EXTENDS Naturals, Sequences, FiniteSets

CONSTANTS MaxLines    \* bound on the length of the text

VARIABLES text,       \* the lines printed so far
          blocks,     \* what parseVBoxBlocks has made of them,
          shown,      \* parseInterfaceBlocks,
          listed,     \* parseHostOnlyIFs and parseBridgedIFs,
          split       \* and parseHostonlyInterface

Keys   == {"Name", "IPAddress"}
Values == 1..2

(* A blank line is empty, or has white space: with the line ends of        *)
(* Windows, a carriage return. "junk" has no colon.                        *)
Lines    == [key : {"empty", "white", "junk"}, value : {0}] \cup [key : Keys, value : Values]
Blank(l) == l.key \in {"empty", "white"}

Nothing     == [k \in Keys |-> 0]
HasName(b)  == b["Name"] # 0
Put(b, l)   == IF l.key = "junk" THEN b ELSE [b EXCEPT ![l.key] = l.value]

(* A parser has a list of the blocks that have ended, and the current one. *)
Blocks  == [Keys -> 0..2]
Parsers == [list : Seq(Blocks), block : Blocks]
Fresh   == [list |-> <<>>, block |-> Nothing]

-----------------------------------------------------------------------------
(* A block that a blank line ends, or the end of the text.                 *)
Close(p) == IF p.block = Nothing THEN p ELSE [list |-> Append(p.list, p.block), block |-> Nothing]

ReadBlock(p, l) == IF Blank(l) THEN Close(p) ELSE [p EXCEPT !.block = Put(@, l)]

(* The blocks with a name, in their order.                                 *)
Before(S, i) == {j \in S : j <= i}
Named(bs) == LET S == {i \in DOMAIN bs : HasName(bs[i])} IN
  [k \in 1..Cardinality(S) |-> bs[CHOOSE i \in S : Cardinality(Before(S, i)) = k]]

HostOnlyBlocks_LastLost == Named(blocks.list)                            \* mutant

(* parseVBoxBlocks, from which the data source takes those with a name.    *)
HostOnlyBlocks == Named(Close(blocks).list)

(* parseInterfaceBlocks converts a block when it ends.                     *)
CloseNamed(p) == [list |-> IF HasName(p.block) THEN Append(p.list, p.block) ELSE p.list, block |-> Nothing]

ReadShown(p, l) == IF Blank(l) THEN CloseNamed(p) ELSE [p EXCEPT !.block = Put(@, l)]

InterfaceBlocks == CloseNamed(shown).list

(* parseHostOnlyIFs and parseBridgedIFs start an interface at its name and *)
(* ignore what comes before it.                                            *)
StartOrPut(b, l) == CASE l.key = "junk"   -> b
                      [] l.key = "Name"   -> Put(Nothing, l)
                      [] OTHER            -> IF HasName(b) THEN Put(b, l) ELSE b

ReadListed(p, l) == IF Blank(l) THEN CloseNamed(p) ELSE [p EXCEPT !.block = StartOrPut(@, l)]

ListedIFs == CloseNamed(listed).list

(* parseHostonlyInterface splits the text where a line is empty, and takes *)
(* the first block with the name.                                          *)
ReadSplit(p, l) == CASE l.key = "empty" -> Close(p)
                     [] l.key = "white" -> p
                     [] OTHER           -> [p EXCEPT !.block = Put(@, l)]

FirstNamed(bs, n) == LET found == {i \in DOMAIN bs : bs[i]["Name"] = n} IN
  IF found = {} THEN Nothing ELSE bs[CHOOSE i \in found : \A j \in found : i <= j]

Interface(n) == FirstNamed(Close(split).list, n)

-----------------------------------------------------------------------------
Init == text = <<>> /\ blocks = Fresh /\ shown = Fresh /\ listed = Fresh /\ split = Fresh

PrintLine == /\ Len(text) < MaxLines
             /\ \E l \in Lines : /\ text' = Append(text, l)
                                 /\ blocks' = ReadBlock(blocks, l) /\ shown' = ReadShown(shown, l)
                                 /\ listed' = ReadListed(listed, l) /\ split' = ReadSplit(split, l)

Next == PrintLine

TypeOK == /\ text \in Seq(Lines) /\ Len(text) <= MaxLines
          /\ {blocks, shown, listed, split} \subseteq Parsers

-----------------------------------------------------------------------------
(* Properties                                                              *)

(* What VirtualBox prints: a block begins with its name, and has one.      *)
Starts(i)  == i = 1 \/ Blank(text[i - 1])
WellFormed == \A i \in DOMAIN text : ~Blank(text[i]) => (Starts(i) <=> text[i].key = "Name")

(* The data sources read the same interfaces from any text; the wrapper in *)
(* internal/vboxmanage reads them from what VirtualBox prints; and the     *)
(* resource finds the one of its name, as long as no blank line has white  *)
(* space in it.                                                            *)
ParsersAgree ==
  /\ HostOnlyBlocks = InterfaceBlocks
  /\ WellFormed => ListedIFs = InterfaceBlocks
  /\ (\A i \in DOMAIN text : text[i].key # "white") =>
       \A n \in Values : Interface(n) = FirstNamed(InterfaceBlocks, n)
=============================================================================
