------------------------------- MODULE Script -------------------------------
(***************************************************************************)
(* The scripts of a power control device and the stack of execution        *)
(* contexts that runs one (ExecCtx in powermand/device.c).                 *)
(*                                                                         *)
(* A script is a block of statements; foreach and if statements hold an    *)
(* inner block.  Blocks are named, so that a context is a small record: it *)
(* says which block it runs, which statement is current, which plugs the   *)
(* block is for, where a foreach is in the plug list, and the flag that    *)
(* send, delay and if use to tell their first execution from a resumption. *)
(***************************************************************************)
EXTENDS Naturals, Sequences, FiniteSets

CONSTANT
    Block       (* Block[b] is the sequence of statements of block b *)

StmtTypes == { "send", "expect", "setplugstate", "delay",
               "foreachplug", "foreachnode", "ifon", "ifoff" }

(* "arg" says how the device answers a send ("ack": it is done, "one": the *)
(* state of the plug, "each": a line per plug), what an expect matches     *)
(* ("none": a line, "row": the lines of all plugs at once), and where a    *)
(* setplugstate has the name of its plug from, if it is not literal        *)
(* ("match": what the regex matched, "target": it is omitted).             *)
Replies == { "ack", "one", "each" }
StmtArgs == Replies \cup { "none", "row", "match", "target" }

(* The statements with an inner block. *)
Compound == { "foreachplug", "foreachnode", "ifon", "ifoff" }

(* A statement as the parser makes it: "body" names the inner block,       *)
(* "plug" is a plug that is named literally, or 0.                         *)
IsStmt(s) ==
    /\ DOMAIN s = {"type", "arg", "body", "plug"}
    /\ s.plug \in Nat
    /\ s.type \in StmtTypes
    /\ s.arg \in StmtArgs
    /\ s.type = "send" => s.arg \in Replies
    /\ s.type \in Compound => s.body \in DOMAIN Block

(* The grammar has no empty block (parse_tab.y, stmt_block). *)
ASSUME BlockAssumption ==
    \A b \in DOMAIN Block :
        /\ DOMAIN Block[b] = 1..Len(Block[b])
        /\ Len(Block[b]) \in Nat \ {0}
        /\ \A k \in 1..Len(Block[b]) : IsStmt(Block[b][k])

(* The contexts of a device with the plugs P.  plugs = {} is the NULL list *)
(* of an _ALL script, plugitr = 0 the NULL iterator.                       *)
ExecCtx(P) ==
    { e \in [ plugs : SUBSET P, block : DOMAIN Block, stmt : Nat \ {0},
              plugitr : Nat, processing : BOOLEAN ] :
        e.stmt <= Len(Block[e.block]) }

create_exec_ctx(block, plugs) ==
    [ plugs |-> plugs, block |-> block, stmt |-> 1,
      plugitr |-> 0, processing |-> FALSE ]

(* A stack is a sequence, its top first, the outer block last. *)
Stacks(P) == Seq(ExecCtx(P)) \ { <<>> }

cur_stmt(e) == Block[e.block][e.stmt]

(* Back to the outer block and its first statement.  Only the statement is *)
(* reset: the plug iterator and the processing flag stay as they were.     *)
rewind_action(exec) == << [exec[Len(exec)] EXCEPT !.stmt = 1] >>

(* Mutated form of next_stmt: one past the end of the block. *)
next_stmt_past_end(exec) ==
    IF Head(exec).stmt <= Len(Block[Head(exec).block])
    THEN << [Head(exec) EXCEPT !.stmt = @ + 1] >> \o Tail(exec)
    ELSE Tail(exec)

(* The statement at the top is done: the next one of its block, or the end *)
(* of the block, which uncovers the statement that started it.             *)
next_stmt(exec) ==
    IF Head(exec).stmt < Len(Block[Head(exec).block])
    THEN << [Head(exec) EXCEPT !.stmt = @ + 1] >> \o Tail(exec)
    ELSE Tail(exec)

(* The stack with another top. *)
set_top(exec, e) == << e >> \o Tail(exec)
=============================================================================
