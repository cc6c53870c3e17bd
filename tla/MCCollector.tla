----------------------------- MODULE MCCollector -----------------------------
(* Small instances of Collector for TLC: each behaviour is about one part of  *)
(* it, which part says.                                                      *)
EXTENDS Collector
CONSTANTS p1, p2, t1, t2, u1
VARIABLES part

Start(parts) == part \in parts /\ CollectorInit
MCNext ==
  \/ part = "bytes" /\ Next /\ UNCHANGED <<part, participants, names, hints, tcp, translations>>
  \/ part = "participants" /\ A!Next /\ UNCHANGED <<part, vars, names, hints, tcp, translations>>
  \/ part = "names" /\ N!Next /\ UNCHANGED <<part, vars, participants, hints, tcp, translations>>
  \/ part = "hints" /\ D!Next /\ UNCHANGED <<part, vars, participants, names, tcp, translations>>
  \/ /\ ((part = "captured" /\ H!CaptureNext) \/ (part = "kernel" /\ H!KernelNext))
     /\ UNCHANGED <<part, vars, participants, names, hints, translations>>
  \* translations, while no time passes, and with one connection while it does
  \/ /\ ((part = "lookups" /\ T!Next /\ T_now' = T_now) \/ (part = "entries" /\ T!Next /\ opens' <= 1))
     /\ UNCHANGED <<part, vars, participants, names, hints, tcp>>
MCSpec ==
  /\ Start({"bytes", "participants", "names", "hints", "captured", "kernel", "lookups", "entries"})
  /\ [][MCNext]_<<part, all>>
NATSpec == Start({"entries"}) /\ [][MCNext]_<<part, all>>

(* A NAT entry lives as long as its flows (expire).                           *)
LivesAsLongAsItsFlows == part = "entries" => T!LivesAsLongAsItsFlows
=============================================================================
