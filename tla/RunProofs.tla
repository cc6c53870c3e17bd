------------------------------ MODULE RunProofs ------------------------------
(***************************************************************************)
(* Theorems about a run: the totals its PID probe reports, for any number of *)
(* processors, sockets, owners and elements, and any size of the event ring; *)
(* its goroutines, for any number of capture sockets and probes, any channel *)
(* sizes and any number of rows; and the change log they write, for any      *)
(* limit and any number of rows, failures and starts.                       *)
(***************************************************************************)
EXTENDS IoTotals, MainLoop, ChangeLog, FiniteSetTheorems, SequenceTheorems, TLAPS

(***************************************************************************)
(* The inductive invariant.                                                *)
(***************************************************************************)
Pcs == {"idle", "add", "takeover", "update", "again", "submit", "delete"}
Entries == [gen : Nat, owner : Owner \cup {None}, total : Nat]
Processors == [pc : Pcs, key : Key \cup {None}, owner : Owner \cup {None},
               ptr : Elem \cup {None}, record : BOOLEAN]
Records == [gen : Nat, total : Nat, writer : Cpu \cup {None}]

KernelType ==
  /\ table \in [Key -> Elem \cup {None}]
  /\ elem \in [Elem -> Entries]
  /\ nextGen \in Nat \ {0}
  /\ cpu \in [Cpu -> Processors]
  /\ calls \in 0..MaxCalls
  /\ most \in [Gen -> Nat]
  /\ ring \in Seq(Records)
ReaderType ==
  /\ DOMAIN entries \subseteq Nat /\ \A g \in DOMAIN entries : entries[g] \in Nat
  /\ reported \in [Gen -> 0..(Word - 1)]

(* The generations in use: each belongs to one element and each element to  *)
(* one key; a pointer that was looked up points to an entry, old or new.    *)
Generated ==
  /\ \A k, j \in Key : Live(k) /\ table[k] = table[j] => k = j
  /\ \A d, e \in Elem : elem[d].gen = elem[e].gen /\ elem[e].gen # 0 => d = e
  /\ \A e \in Elem : elem[e].gen < nextGen
  /\ \A k \in Key : Live(k) => elem[table[k]].gen # 0
  /\ \A c \in Cpu : /\ cpu[c].pc \in {"add", "takeover"}
                         => cpu[c].ptr \in Elem /\ elem[cpu[c].ptr].gen # 0
                    /\ cpu[c].pc # "idle" => cpu[c].key \in Key

(* Calls that have not added their byte yet. *)
Busy == {c \in Cpu : cpu[c].pc \in {"add", "takeover", "update", "again"}}

(* A total is the bytes added to its entry: never more than the calls. *)
Counted ==
  /\ \A e \in Elem : elem[e].gen \in Gen => elem[e].total = most[elem[e].gen]
  /\ \A g \in Gen : most[g] + Cardinality(Busy) <= calls
  /\ \A g \in Gen : g >= nextGen => most[g] = 0

(* What was taken: records and ends are of entries taken; one that is not   *)
(* stray has one record or one end, and while it is in the map its record   *)
(* is still being written by the processor that replaces or removes it.     *)
Taken ==
  /\ copied \subseteq 1..(nextGen - 1) /\ ended \subseteq copied
  /\ \A i \in 1..Len(ring) :
       /\ ring[i].gen \in copied
       /\ ring[i].gen \in Gen => ring[i].total <= most[ring[i].gen]
       /\ ring[i].gen \notin strays =>
            /\ ring[i].gen \notin ended
            /\ \A j \in 1..Len(ring) : ring[j].gen = ring[i].gen => j = i
            /\ \A k \in Key : Live(k) /\ elem[table[k]].gen = ring[i].gen =>
                 /\ ring[i].writer \in Cpu
                 /\ cpu[ring[i].writer].pc \in {"update", "delete"}
                 /\ cpu[ring[i].writer].key = k
                 /\ cpu[ring[i].writer].ptr # None
Ends ==
  \A k \in Key : Live(k) /\ elem[table[k]].gen \notin strays => elem[table[k]].gen \notin ended

(* The reader has seen no more than was added, and reported what it has     *)
(* seen until the entry ends.                                               *)
Read ==
  /\ \A g \in DOMAIN entries : g < nextGen
  /\ \A g \in Gen \cap DOMAIN entries : entries[g] <= most[g]
  /\ \A g \in Gen \ (ended \cup forgotten) : reported[g] = Seen(g)
  /\ \A g \in (Gen \cap ended) \ (forgotten \cup strays) :
       g \notin DOMAIN entries /\ reported[g] <= most[g]

IInv == KernelType /\ ReaderType /\ Generated /\ Counted /\ Taken /\ Ends /\ Read

(***************************************************************************)
(* Arithmetic and counting.                                                *)
(***************************************************************************)
LEMMA Words == Word \in Nat /\ Word > MaxCalls /\ MaxCalls \in Nat /\ MaxCalls < Word
  BY IoTotalsAssumption

(* The reader's sums modulo the word size. *)
LEMMA Remainders ==
  ASSUME NEW w \in Nat, w > 0
  PROVE  /\ \A x \in Int : x % w \in 0..(w - 1)
         /\ \A x \in 0..(w - 1) : x % w = x /\ (x - w) % w = x /\ (x + w) % w = x
  OBVIOUS

(* A report takes what was reported to the total, if that was what was seen. *)
LEMMA ReportIsTotal ==
  ASSUME NEW g \in Gen, NEW total \in 0..(Word - 1), NEW seen \in 0..(Word - 1),
         reported[g] = seen
  PROVE  report(g, added(total, seen)) = total
<1>1. Word \in Nat /\ Word > 0
  BY Words
<1>2. CASE total >= seen
  <2>1. total - seen \in 0..(Word - 1) /\ seen + (total - seen) = total
    BY <1>1, <1>2
  <2>2. (total - seen) % Word = total - seen /\ total % Word = total
    BY <1>1, <2>1, Remainders
  <2> QED BY <2>1, <2>2 DEF report, added
<1>3. CASE total < seen
  <2> DEFINE x == total - seen + Word
  <2>1. x \in 0..(Word - 1) /\ total - seen = x - Word /\ seen + x = total + Word
    BY <1>1, <1>3
  <2>2. (total - seen) % Word = x
    BY <1>1, <2>1, Remainders
  <2>3. (total + Word) % Word = total
    BY <1>1, Remainders
  <2> QED BY <2>1, <2>2, <2>3 DEF report, added
<1> QED BY <1>2, <1>3

LEMMA ReportRange ==
  ASSUME NEW g \in Gen, reported \in [Gen -> 0..(Word - 1)], NEW total \in Int, NEW seen \in Int
  PROVE  report(g, added(total, seen)) \in 0..(Word - 1)
<1>1. Word \in Nat /\ Word > 0
  BY Words
<1>2. (total - seen) % Word \in Int
  BY <1>1, Remainders
<1>3. reported[g] + ((total - seen) % Word) \in Int
  BY <1>1, <1>2
<1> QED BY <1>1, <1>3, Remainders DEF report, added

LEMMA BusyCount ==
  /\ IsFiniteSet(Busy) /\ Cardinality(Busy) \in Nat
  /\ \A c \in Busy : /\ Cardinality(Busy \ {c}) = Cardinality(Busy) - 1
                      /\ Cardinality(Busy \ {c}) \in Nat
  /\ \A c \in Cpu \ Busy : Cardinality(Busy \cup {c}) = Cardinality(Busy) + 1
<1>1. IsFiniteSet(Busy)
  BY IoTotalsAssumption, FS_Subset DEF Busy
<1>2. \A c \in Busy : Cardinality(Busy \ {c}) \in Nat
  BY <1>1, FS_RemoveElement, FS_CardinalityType
<1> QED BY <1>1, <1>2, FS_CardinalityType, FS_RemoveElement, FS_AddElement

(***************************************************************************)
(* Types.                                                                  *)
(***************************************************************************)
LEMMA RecordTypes ==
  ASSUME KernelType, NEW c \in Cpu, NEW e \in Elem
  PROVE  record(c, e) \in Records
  BY DEF KernelType, record, Records, Entries

LEMMA CopyTypes ==
  ASSUME KernelType, NEW c \in Cpu, NEW k, NEW e \in Elem, copyTotal(c, k, e)
  PROVE  ring' \in Seq(Records)
<1>1. Append(ring, record(c, e)) \in Seq(Records)
  BY RecordTypes DEF KernelType
<1> QED BY <1>1 DEF copyTotal, KernelType

LEMMA AfterwardsType ==
  ASSUME KernelType, NEW c \in Cpu
  PROVE  /\ Idle \in Processors /\ afterwards(c) \in Processors
         /\ afterwards(c).pc \in {"idle", "submit"}
         /\ afterwards(c).key \in {None, cpu[c].key}
  BY DEF KernelType, Processors, Pcs, Idle, afterwards

LEMMA AddType ==
  ASSUME NEW r \in Entries
  PROVE  [r EXCEPT !.total = @ + 1] \in Entries
<1>1. r.total + 1 \in Nat
  BY DEF Entries
<1> QED BY <1>1 DEF Entries

LEMMA KernelTypeStep ==
  ASSUME KernelType, Generated, Next
  PROVE  KernelType'
<1> USE DEF KernelType
<1>1. ASSUME NEW c \in Cpu, NEW k \in Key, NEW p \in Owner, Call(c, k, p) PROVE KernelType'
  <2>1. calls' \in 0..MaxCalls
    BY <1>1, Words DEF Call
  <2>2. PICK pc \in {"update", "add", "takeover"} :
          cpu' = [cpu EXCEPT ![c] = [pc |-> pc, key |-> k, owner |-> p, ptr |-> table[k],
                                     record |-> FALSE]]
    BY <1>1 DEF Call
  <2>3. [pc |-> pc, key |-> k, owner |-> p, ptr |-> table[k], record |-> FALSE] \in Processors
    BY DEF Processors, Pcs
  <2>4. cpu' \in [Cpu -> Processors]
    BY <2>2, <2>3
  <2> QED BY <1>1, <2>1, <2>4 DEF Call
<1>2. ASSUME NEW c \in Cpu, Add(c) PROVE KernelType'
  <2>1. cpu[c].ptr \in Elem
    BY <1>2 DEF Generated, Add
  <2>2. elem' \in [Elem -> Entries]
    <3>1. [elem[cpu[c].ptr] EXCEPT !.total = @ + 1] \in Entries
      BY <2>1, AddType
    <3> QED BY <1>2, <2>1, <3>1 DEF Add
  <2>3. most' \in [Gen -> Nat]
    BY <1>2 DEF Add
  <2>4. cpu' \in [Cpu -> Processors]
    BY <1>2, AfterwardsType DEF Add
  <2> QED BY <1>2, <2>2, <2>3, <2>4 DEF Add
<1>3. ASSUME NEW c \in Cpu, TakeOver(c) PROVE KernelType'
  <2>1. cpu[c].ptr \in Elem
    BY <1>3 DEF Generated, TakeOver
  <2>2. ring' \in Seq(Records)
    BY <1>3, <2>1, CopyTypes DEF TakeOver
  <2>3. [cpu[c] EXCEPT !.pc = "update", !.record = reserve] \in Processors
    <3>1. cpu[c] \in Processors /\ reserve \in BOOLEAN
      BY DEF reserve
    <3> QED BY <3>1 DEF Processors, Pcs
  <2>4. cpu' \in [Cpu -> Processors]
    BY <1>3, <2>3 DEF TakeOver
  <2> QED BY <1>3, <2>2, <2>4 DEF TakeOver
<1>4. ASSUME NEW c \in Cpu, Update(c) PROVE KernelType'
  <2>1. PICK e \in Elem \ Range(table) :
          /\ table' = [table EXCEPT ![cpu[c].key] = e]
          /\ elem' = [elem EXCEPT ![e] = [gen |-> nextGen, owner |-> cpu[c].owner, total |-> 1]]
    BY <1>4 DEF Update
  <2>2. cpu[c] \in Processors
    OBVIOUS
  <2>3. [gen |-> nextGen, owner |-> cpu[c].owner, total |-> 1] \in Entries
    BY <2>2 DEF Processors, Entries
  <2>4. elem' \in [Elem -> Entries] /\ table' \in [Key -> Elem \cup {None}]
    BY <2>1, <2>3
  <2>5. most' \in [Gen -> Nat] /\ nextGen' \in Nat \ {0}
    <3>1. most' = [most EXCEPT ![nextGen] = 1] /\ nextGen' = nextGen + 1
      BY <1>4 DEF Update
    <3>2. nextGen' \in Nat \ {0}
      BY <3>1
    <3>3. most' \in [Gen -> Nat]
      BY <3>1
    <3> QED BY <3>2, <3>3
  <2>6. cpu' \in [Cpu -> Processors]
    BY <1>4, AfterwardsType DEF Update
  <2> QED BY <1>4, <2>4, <2>5, <2>6 DEF Update
<1>5. ASSUME NEW c \in Cpu, UpdateExists(c) PROVE KernelType'
  <2>1. cpu' \in [Cpu -> Processors]
    BY <1>5 DEF UpdateExists, Processors, Pcs
  <2> QED BY <1>5, <2>1 DEF UpdateExists
<1>6. ASSUME NEW c \in Cpu, LookAgain(c) PROVE KernelType'
  <2>1. cpu[c].key \in Key
    BY <1>6 DEF Generated, LookAgain
  <2>2. table[cpu[c].key] \in Elem \cup {None}
    BY <2>1
  <2>3. cpu' \in [Cpu -> Processors]
    BY ZenonT(30), <1>6, <2>2, AfterwardsType DEF LookAgain, Processors, Pcs
  <2> QED BY <1>6, <2>3 DEF LookAgain
<1>7. ASSUME NEW c \in Cpu, Submit(c) PROVE KernelType'
  <2>1. ASSUME NEW i \in 1..Len(ring)
        PROVE  ring[i] \in Records /\ [ring[i] EXCEPT !.writer = None] \in Records
    <3>1. ring[i] \in Records
      OBVIOUS
    <3> QED BY <3>1 DEF Records
  <2>2. /\ ring' = [i \in 1..Len(ring) |->
                      IF ring[i].writer = c THEN [ring[i] EXCEPT !.writer = None] ELSE ring[i]]
        /\ Len(ring) \in Nat
    BY <1>7 DEF Submit
  <2>3. ring' \in Seq(Records)
    BY <2>1, <2>2
  <2>4. cpu' \in [Cpu -> Processors]
    BY <1>7, AfterwardsType DEF Submit
  <2> QED BY <1>7, <2>3, <2>4 DEF Submit
<1>8. ASSUME NEW c \in Cpu, NEW k \in Key, SocketDestroyed(c, k) PROVE KernelType'
  <2>1. table[k] \in Elem
    BY <1>8 DEF SocketDestroyed, Live
  <2>2. ring' \in Seq(Records)
    BY <1>8, <2>1, CopyTypes DEF SocketDestroyed
  <2>3. [pc |-> "delete", key |-> k, owner |-> None, ptr |-> table[k], record |-> reserve]
          \in Processors
    BY <2>1 DEF Processors, Pcs, reserve
  <2>4. cpu' \in [Cpu -> Processors]
    BY <1>8, <2>3 DEF SocketDestroyed
  <2> QED BY <1>8, <2>2, <2>4 DEF SocketDestroyed
<1>9. ASSUME NEW c \in Cpu, Delete(c) PROVE KernelType'
  BY <1>9, AfterwardsType DEF Delete
<1>10. ASSUME NEW k \in Key, EvictLRU(k) PROVE KernelType'
  BY <1>10 DEF EvictLRU
<1>11. CASE ReadLast
  <2>1. ring' \in Seq(Records)
    BY <1>11 DEF ReadLast
  <2> QED BY <1>11, <2>1 DEF ReadLast, kernel
<1>12. ASSUME kernel' = kernel, ring' = ring PROVE KernelType'
  BY <1>12 DEF kernel
<1>13. StartSweep \/ (\E k \in Key : SweepEntry(k)) \/ EndSweep \/ AbortSweep
         => kernel' = kernel /\ ring' = ring
  BY DEF StartSweep, SweepEntry, EndSweep, AbortSweep
<1> HIDE DEF KernelType
<1> QED BY <1>1, <1>2, <1>3, <1>4, <1>5, <1>6, <1>7, <1>8, <1>9, <1>10, <1>11, <1>12, <1>13
        DEF Next, Program, Reader

LEMMA ReaderTypeStep ==
  ASSUME KernelType, ReaderType, Next
  PROVE  ReaderType'
<1>1. CASE UNCHANGED <<entries, reported>>
  BY <1>1 DEF ReaderType
<1>2. \A g \in Nat : Seen(g) \in Nat
  BY DEF ReaderType, Seen
<1>3. CASE ReadLast
  <2> DEFINE r == Head(ring)
  <2>1. r \in Records
    BY <1>3 DEF KernelType, ReadLast
  <2>2. r.gen \in Nat /\ r.total \in Nat
    BY <2>1 DEF Records
  <2>3. r.gen \in Gen => report(r.gen, added(r.total, Seen(r.gen))) \in 0..(Word - 1)
    <3>1. Seen(r.gen) \in Int /\ r.total \in Int
      BY <1>2, <2>2
    <3> HIDE DEF r
    <3> QED BY <3>1, ReportRange DEF ReaderType
  <2>4. reported' \in [Gen -> 0..(Word - 1)]
    BY <1>3, <2>3 DEF ReadLast, ReaderType
  <2>5. DOMAIN entries' \subseteq DOMAIN entries /\ \A g \in DOMAIN entries' : entries'[g] = entries[g]
    BY <1>3 DEF ReadLast, Restrict
  <2> QED BY <2>4, <2>5 DEF ReaderType
<1>4. ASSUME NEW k \in Key, SweepEntry(k) PROVE ReaderType'
  <2>1. ASSUME NEW g \in swept(k) PROVE g \in Nat /\ elem[table[k]].total \in Nat
    <3>1. Live(k) /\ g = elem[table[k]].gen
      BY <2>1 DEF swept
    <3>2. table[k] \in Elem
      BY <3>1 DEF KernelType, Live
    <3>3. elem[table[k]] \in Entries
      BY <3>2 DEF KernelType
    <3> QED BY <3>1, <3>3 DEF Entries
  <2>2. /\ DOMAIN running(k) \subseteq Nat
        /\ \A g \in DOMAIN running(k) : running(k)[g] \in Nat
    BY <2>1 DEF running, ReaderType
  <2>3. entries' = running(k)
    BY <1>4 DEF SweepEntry
  <2> HIDE DEF running
  <2>4. ASSUME NEW g \in Gen
        PROVE  (IF g \in DOMAIN running(k)
                THEN report(g, added(running(k)[g], Seen(g))) ELSE reported[g]) \in 0..(Word - 1)
    <3>1. CASE g \in DOMAIN running(k)
      BY <1>2, <2>2, <3>1, ReportRange DEF ReaderType
    <3>2. CASE g \notin DOMAIN running(k)
      BY <3>2 DEF ReaderType
    <3> QED BY <3>1, <3>2
  <2>5. reported' \in [Gen -> 0..(Word - 1)]
    BY <1>4, <2>4 DEF SweepEntry
  <2> QED BY <2>2, <2>3, <2>5 DEF ReaderType
<1>5. CASE EndSweep
  <2>1. reported' = reported /\ entries' = prune
    BY <1>5 DEF EndSweep
  <2>2. DOMAIN prune \subseteq DOMAIN entries /\ \A g \in DOMAIN prune : prune[g] = entries[g]
    BY DEF prune, Restrict
  <2> QED BY <2>1, <2>2 DEF ReaderType
<1> QED BY <1>1, <1>3, <1>4, <1>5
        DEF Next, Program, Reader, Call, Add, TakeOver, Update, UpdateExists, LookAgain, Submit,
            SocketDestroyed, Delete, EvictLRU, StartSweep, AbortSweep, reader

(***************************************************************************)
(* Generations.                                                            *)
(***************************************************************************)
(* A call that starts an entry puts it in an element no key has. *)
LEMMA UpdateStarts ==
  ASSUME KernelType, Generated, NEW c \in Cpu, Update(c)
  PROVE  /\ cpu[c].key \in Key
         /\ \E e \in Elem :
              /\ \A k \in Key : table[k] # e
              /\ table' = [table EXCEPT ![cpu[c].key] = e]
              /\ elem' = [elem EXCEPT ![e] = [gen |-> nextGen, owner |-> cpu[c].owner, total |-> 1]]
<1>1. cpu[c].key \in Key
  BY DEF Generated, Update
<1>2. Range(table) = {table[k] : k \in Key}
  BY DEF KernelType, Range
<1> QED BY <1>1, <1>2 DEF Update

LEMMA GeneratedStep ==
  ASSUME KernelType, Generated, Next
  PROVE  Generated'
<1>1. ASSUME UNCHANGED <<table, nextGen>>,
             \A e \in Elem : elem'[e].gen = elem[e].gen,
             NEW c \in Cpu, \A d \in Cpu \ {c} : cpu'[d] = cpu[d],
             cpu'[c].pc # "idle" => cpu'[c].key \in Key,
             cpu'[c].pc \in {"add", "takeover"} =>
               cpu'[c].ptr \in Elem /\ elem[cpu'[c].ptr].gen # 0
      PROVE  Generated'
  <2>1. \A k \in Key : table[k] # None => table[k] \in Elem
    BY DEF KernelType
  <2>2. \A d \in Cpu : /\ cpu'[d].pc \in {"add", "takeover"}
                              => cpu'[d].ptr \in Elem /\ elem'[cpu'[d].ptr].gen # 0
                       /\ cpu'[d].pc # "idle" => cpu'[d].key \in Key
    BY <1>1 DEF Generated
  <2> QED BY <1>1, <2>1, <2>2 DEF Generated, Live
<1>2. ASSUME NEW c \in Cpu, NEW k \in Key, NEW p \in Owner, Call(c, k, p) PROVE Generated'
  <2>1. /\ cpu'[c].key = k /\ cpu'[c].ptr = table[k]
        /\ cpu'[c].pc \in {"add", "takeover"} => Live(k)
        /\ \A d \in Cpu \ {c} : cpu'[d] = cpu[d]
        /\ UNCHANGED <<table, nextGen, elem>>
    BY <1>2 DEF KernelType, Call
  <2>2. Live(k) => table[k] \in Elem /\ elem[table[k]].gen # 0
    BY DEF KernelType, Generated, Live
  <2> QED BY <1>1, <2>1, <2>2
<1>3. ASSUME NEW c \in Cpu, Add(c) PROVE Generated'
  <2>1. \A e \in Elem : elem'[e].gen = elem[e].gen
    BY <1>3 DEF KernelType, Add, Entries
  <2>2. UNCHANGED <<table, nextGen>> /\ cpu' = [cpu EXCEPT ![c] = Idle]
    BY <1>3 DEF Add
  <2>3. cpu'[c] = Idle /\ \A d \in Cpu \ {c} : cpu'[d] = cpu[d]
    BY <2>2 DEF KernelType
  <2>4. cpu'[c].pc = "idle"
    BY <2>3 DEF Idle
  <2> QED BY <1>1, <2>1, <2>2, <2>3, <2>4
<1>4. ASSUME NEW c \in Cpu, TakeOver(c) \/ UpdateExists(c) PROVE Generated'
  <2>1. /\ cpu'[c].pc \in {"update", "again"} /\ cpu'[c].key = cpu[c].key
        /\ \A d \in Cpu \ {c} : cpu'[d] = cpu[d]
        /\ UNCHANGED <<table, nextGen, elem>>
    <3>1. PICK r \in BOOLEAN, pc \in {"update", "again"} :
            cpu' = [cpu EXCEPT ![c] = [cpu[c] EXCEPT !.pc = pc, !.record = r]]
      <4>1. CASE TakeOver(c)
        <5>1. reserve \in BOOLEAN
          BY DEF reserve
        <5> QED BY <4>1, <5>1 DEF TakeOver
      <4>2. CASE UpdateExists(c)
        <5>1. cpu[c] \in Processors /\ cpu' = [cpu EXCEPT ![c] = [cpu[c] EXCEPT !.pc = "again"]]
          BY <4>2 DEF KernelType, UpdateExists
        <5>2. [cpu[c] EXCEPT !.pc = "again"]
                = [cpu[c] EXCEPT !.pc = "again", !.record = cpu[c].record]
              /\ cpu[c].record \in BOOLEAN
          BY <5>1 DEF Processors
        <5> QED BY <5>1, <5>2
      <4> QED BY <1>4, <4>1, <4>2
    <3>2. cpu[c] \in Processors /\ cpu \in [Cpu -> Processors]
      BY DEF KernelType
    <3>3. cpu'[c].pc = pc /\ cpu'[c].key = cpu[c].key /\ \A d \in Cpu \ {c} : cpu'[d] = cpu[d]
      BY <3>1, <3>2 DEF Processors
    <3>4. UNCHANGED <<table, nextGen, elem>>
      BY <1>4 DEF TakeOver, UpdateExists
    <3> QED BY <3>3, <3>4
  <2>2. cpu[c].key \in Key
    BY <1>4 DEF Generated, TakeOver, UpdateExists
  <2> QED BY <1>1, <2>1, <2>2
<1>5. ASSUME NEW c \in Cpu, LookAgain(c) PROVE Generated'
  <2> DEFINE k == cpu[c].key
  <2>1. k \in Key /\ UNCHANGED <<table, nextGen, elem>>
    BY <1>5 DEF Generated, LookAgain
  <2>2. /\ \A d \in Cpu \ {c} : cpu'[d] = cpu[d]
        /\ \/ ~Live(k) /\ cpu'[c] = Idle
           \/ Live(k) /\ cpu'[c] = [cpu[c] EXCEPT !.pc = "add", !.ptr = table[k]]
    BY <1>5 DEF KernelType, LookAgain, Live
  <2>3. Live(k) => table[k] \in Elem /\ elem[table[k]].gen # 0
    BY <2>1 DEF KernelType, Generated, Live
  <2>4. CASE cpu'[c] = Idle
    BY <1>1, <2>1, <2>2, <2>4 DEF Idle
  <2>5. CASE Live(k) /\ cpu'[c] = [cpu[c] EXCEPT !.pc = "add", !.ptr = table[k]]
    <3>1. cpu'[c].key = k /\ cpu'[c].ptr = table[k]
      BY <2>5 DEF KernelType, Processors
    <3> QED BY <1>1, <2>1, <2>2, <2>3, <2>5, <3>1
  <2> QED BY <2>2, <2>4, <2>5
<1>6. ASSUME NEW c \in Cpu, Submit(c) PROVE Generated'
  <2>1. /\ cpu'[c] = Idle /\ \A d \in Cpu \ {c} : cpu'[d] = cpu[d]
        /\ UNCHANGED <<table, nextGen, elem>>
    BY <1>6 DEF KernelType, Submit
  <2> QED BY <1>1, <2>1 DEF Idle
<1>7. ASSUME NEW c \in Cpu, NEW k \in Key, SocketDestroyed(c, k) PROVE Generated'
  <2>1. /\ cpu'[c].pc = "delete" /\ cpu'[c].key = k
        /\ \A d \in Cpu \ {c} : cpu'[d] = cpu[d]
        /\ UNCHANGED <<table, nextGen, elem>>
    BY <1>7 DEF KernelType, SocketDestroyed
  <2> QED BY <1>1, <2>1
<1>8. ASSUME NEW c \in Cpu, Update(c) PROVE Generated'
  <2> DEFINE k == cpu[c].key
  <2>1. k \in Key
    BY <1>8, UpdateStarts
  <2>2. PICK e \in Elem :
          /\ \A j \in Key : table[j] # e
          /\ table' = [table EXCEPT ![k] = e]
          /\ elem' = [elem EXCEPT ![e] = [gen |-> nextGen, owner |-> cpu[c].owner, total |-> 1]]
    BY <1>8, UpdateStarts
  <2>3. nextGen' = nextGen + 1 /\ nextGen \in Nat /\ nextGen # 0
    BY <1>8 DEF KernelType, Update
  <2>4. /\ elem'[e].gen = nextGen
        /\ \A d \in Elem \ {e} : elem'[d].gen = elem[d].gen
        /\ \A d \in Elem : elem[d].gen < nextGen /\ elem[d].gen \in Nat
    BY <2>2 DEF KernelType, Entries, Generated
  <2>5. table'[k] = e /\ \A j \in Key \ {k} : table'[j] = table[j] /\ table'[j] # e
    BY <2>1, <2>2 DEF KernelType
  <2>6. cpu'[c] = afterwards(c) /\ \A d \in Cpu \ {c} : cpu'[d] = cpu[d]
    BY <1>8 DEF KernelType, Update
  <2>7. \A j, l \in Key : table'[j] # None /\ table'[j] = table'[l] => j = l
    BY <2>5 DEF Generated, Live
  <2>8. \A d, f \in Elem : elem'[d].gen = elem'[f].gen /\ elem'[f].gen # 0 => d = f
    BY <2>3, <2>4 DEF Generated
  <2>9. \A d \in Elem : elem'[d].gen < nextGen'
    BY <2>3, <2>4
  <2>10. \A d \in Elem : elem[d].gen # 0 => elem'[d].gen # 0
    BY <2>3, <2>4
  <2>11. \A j \in Key : table'[j] # None => elem'[table'[j]].gen # 0
    <3>1. \A j \in Key \ {k} : table[j] # None => table[j] \in Elem /\ elem[table[j]].gen # 0
      BY DEF KernelType, Generated, Live
    <3> QED BY <2>3, <2>4, <2>5, <2>10, <3>1
  <2>12. \A d \in Cpu : /\ cpu'[d].pc \in {"add", "takeover"}
                             => cpu'[d].ptr \in Elem /\ elem'[cpu'[d].ptr].gen # 0
                        /\ cpu'[d].pc # "idle" => cpu'[d].key \in Key
    <3>1. ASSUME NEW d \in Cpu \ {c}
          PROVE  /\ cpu'[d].pc \in {"add", "takeover"}
                      => cpu'[d].ptr \in Elem /\ elem'[cpu'[d].ptr].gen # 0
                 /\ cpu'[d].pc # "idle" => cpu'[d].key \in Key
      BY <2>6, <2>10 DEF Generated
    <3>2. cpu'[c].pc \in {"idle", "submit"} /\ (cpu'[c].pc # "idle" => cpu'[c].key = k)
      BY <2>6 DEF afterwards, Idle, KernelType, Processors
    <3> QED BY <2>1, <3>1, <3>2
  <2> QED BY <2>7, <2>8, <2>9, <2>11, <2>12 DEF Generated, Live
<1>9. ASSUME NEW c \in Cpu, Delete(c) PROVE Generated'
  <2> DEFINE k == cpu[c].key
  <2>1. k \in Key /\ UNCHANGED <<elem, nextGen>>
    BY <1>9 DEF Generated, Delete
  <2>2. table'[k] = None /\ \A j \in Key \ {k} : table'[j] = table[j]
    BY <1>9, <2>1 DEF KernelType, Delete
  <2>3. cpu'[c] = afterwards(c) /\ \A d \in Cpu \ {c} : cpu'[d] = cpu[d]
    BY <1>9 DEF KernelType, Delete
  <2>4. cpu'[c].pc \in {"idle", "submit"} /\ (cpu'[c].pc # "idle" => cpu'[c].key = k)
    BY <2>3 DEF afterwards, Idle, KernelType, Processors
  <2> QED BY <2>1, <2>2, <2>3, <2>4 DEF Generated, Live
<1>10. ASSUME NEW k \in Key, EvictLRU(k) PROVE Generated'
  <2>1. table'[k] = None /\ (\A j \in Key \ {k} : table'[j] = table[j])
        /\ UNCHANGED <<elem, nextGen, cpu>>
    BY <1>10 DEF KernelType, EvictLRU
  <2> QED BY <2>1 DEF Generated, Live
<1>11. CASE kernel' = kernel
  BY <1>11 DEF Generated, Live, kernel
<1> QED BY <1>2, <1>3, <1>4, <1>5, <1>6, <1>7, <1>8, <1>9, <1>10, <1>11
        DEF Next, Program, Reader, ReadLast, StartSweep, SweepEntry, EndSweep, AbortSweep

(***************************************************************************)
(* Counting.                                                               *)
(***************************************************************************)
BusyPcs == {"add", "takeover", "update", "again"}

(* A step of one processor moves at most that one in or out of Busy. *)
LEMMA BusyStep ==
  ASSUME KernelType, NEW c \in Cpu, \A d \in Cpu \ {c} : cpu'[d] = cpu[d]
  PROVE  LET B == Cardinality(Busy)  C == Cardinality(Busy)' IN
         /\ B \in Nat /\ C \in Nat
         /\ cpu[c].pc \in BusyPcs /\ cpu'[c].pc \notin BusyPcs => C = B - 1
         /\ cpu[c].pc \notin BusyPcs /\ cpu'[c].pc \in BusyPcs => C = B + 1
         /\ (cpu[c].pc \in BusyPcs <=> cpu'[c].pc \in BusyPcs) => C = B
<1>1. /\ Busy = {d \in Cpu : cpu[d].pc \in BusyPcs}
      /\ Busy' = {d \in Cpu : cpu'[d].pc \in BusyPcs}
  BY DEF Busy, BusyPcs
<1>2. CASE cpu[c].pc \in BusyPcs /\ cpu'[c].pc \notin BusyPcs
  <2>1. Busy' = Busy \ {c} /\ c \in Busy
    BY <1>1, <1>2
  <2> QED BY <1>2, <2>1, BusyCount
<1>3. CASE cpu[c].pc \notin BusyPcs /\ cpu'[c].pc \in BusyPcs
  <2>1. Busy' = Busy \cup {c} /\ c \in Cpu \ Busy
    BY <1>1, <1>3
  <2> QED BY <1>3, <2>1, BusyCount
<1>4. CASE cpu[c].pc \in BusyPcs <=> cpu'[c].pc \in BusyPcs
  <2>1. Busy' = Busy
    BY <1>1, <1>4
  <2> QED BY <1>4, <2>1, BusyCount
<1> QED BY <1>2, <1>3, <1>4

LEMMA CountedStep ==
  ASSUME KernelType, Generated, Counted, Next
  PROVE  Counted'
<1>1. /\ Cardinality(Busy) \in Nat /\ nextGen \in Nat /\ calls \in Nat
      /\ \A g \in Gen : g \in Nat /\ most[g] \in Nat
  BY BusyCount, Words DEF KernelType, Gen
<1>2. ASSUME UNCHANGED <<elem, most, nextGen>>,
             NEW c \in Cpu, \A d \in Cpu \ {c} : cpu'[d] = cpu[d],
             \/ /\ calls' = calls
                /\ cpu'[c].pc \in BusyPcs => cpu[c].pc \in BusyPcs
             \/ calls' = calls + 1
      PROVE  Counted'
  <2>1. Cardinality(Busy)' \in Nat
    BY <1>2, BusyStep
  <2>2. Cardinality(Busy)' <= Cardinality(Busy) + (calls' - calls)
    BY <1>1, <1>2, BusyStep
  <2>3. \A g \in Gen : most[g] + Cardinality(Busy)' <= calls'
    BY <1>1, <1>2, <2>1, <2>2 DEF Counted
  <2> QED BY <1>2, <2>3 DEF Counted
<1>3. ASSUME NEW c \in Cpu, NEW k \in Key, NEW p \in Owner, Call(c, k, p) PROVE Counted'
  <2>1. UNCHANGED <<elem, most, nextGen>> /\ calls' = calls + 1
        /\ \A d \in Cpu \ {c} : cpu'[d] = cpu[d]
    BY <1>3 DEF KernelType, Call
  <2> QED BY <1>2, <2>1
<1>4. ASSUME NEW c \in Cpu, Add(c) PROVE Counted'
  <2> DEFINE e == cpu[c].ptr
  <2>1. e \in Elem /\ elem[e].gen \in Nat
    BY <1>4 DEF KernelType, Generated, Add, Entries
  <2>2. /\ elem' = [elem EXCEPT ![e].total = elem[e].total + 1]
        /\ most' = [g \in Gen |-> IF g = elem[e].gen THEN most[g] + 1 ELSE most[g]]
        /\ UNCHANGED <<nextGen, calls>>
    BY <1>4 DEF Add
  <2>3. /\ \A d \in Elem : elem'[d].gen = elem[d].gen
        /\ \A d \in Elem \ {e} : elem'[d].total = elem[d].total
        /\ elem'[e].total = elem[e].total + 1
    BY <2>1, <2>2 DEF KernelType, Entries
  <2>4. ASSUME NEW d \in Elem, elem'[d].gen \in Gen
        PROVE  elem'[d].total = most'[elem'[d].gen]
    <3>1. elem[d].total = most[elem[d].gen]
      BY <2>3, <2>4 DEF Counted
    <3>2. CASE d = e
      BY <2>1, <2>2, <2>3, <2>4, <3>1, <3>2
    <3>3. CASE d # e
      <4>1. elem[d].gen # elem[e].gen
        BY <2>1, <2>3, <2>4, <3>3 DEF Generated, Gen
      <4> QED BY <2>2, <2>3, <2>4, <3>1, <3>3, <4>1
    <3> QED BY <3>2, <3>3
  <2>5. Cardinality(Busy)' = Cardinality(Busy) - 1
    <3>1. cpu[c].pc \in BusyPcs /\ cpu'[c].pc \notin BusyPcs
          /\ \A d \in Cpu \ {c} : cpu'[d] = cpu[d]
      BY <1>4 DEF KernelType, Add, Idle, BusyPcs
    <3> QED BY <3>1, BusyStep
  <2>6. \A g \in Gen : most'[g] <= most[g] + 1
    BY <1>1, <2>2
  <2>7. \A g \in Gen : most'[g] + Cardinality(Busy)' <= calls
    <3>1. \A g \in Gen : most'[g] \in Nat
      BY <1>1, <2>2
    <3> QED BY <1>1, <2>5, <2>6, <3>1 DEF Counted
  <2>8. \A g \in Gen : g >= nextGen => most'[g] = 0
    <3>1. elem[e].gen < nextGen
      BY <2>1 DEF Generated
    <3> QED BY <1>1, <2>1, <2>2, <3>1 DEF Counted
  <2> QED BY <2>2, <2>4, <2>7, <2>8 DEF Counted
<1>5. ASSUME NEW c \in Cpu, Update(c) PROVE Counted'
  <2>1. PICK e \in Elem :
          elem' = [elem EXCEPT ![e] = [gen |-> nextGen, owner |-> cpu[c].owner, total |-> 1]]
    BY <1>5, UpdateStarts
  <2>2. most' = [most EXCEPT ![nextGen] = 1] /\ nextGen' = nextGen + 1 /\ calls' = calls
    BY <1>5 DEF Update
  <2>3. \A g \in Gen : most'[g] = IF g = nextGen THEN 1 ELSE most[g]
    BY <2>2 DEF KernelType
  <2>4. ASSUME NEW d \in Elem, elem'[d].gen \in Gen
        PROVE  elem'[d].total = most'[elem'[d].gen]
    <3>1. CASE d = e
      BY <2>1, <2>3, <2>4, <3>1 DEF KernelType
    <3>2. CASE d # e
      <4>1. elem'[d] = elem[d] /\ elem[d].gen < nextGen
        BY <2>1, <3>2 DEF KernelType, Generated
      <4> QED BY <1>1, <2>3, <2>4, <4>1 DEF Counted
    <3> QED BY <3>1, <3>2
  <2>5. Cardinality(Busy)' = Cardinality(Busy) - 1 /\ Cardinality(Busy)' \in Nat
    <3>1. cpu[c].pc \in BusyPcs /\ cpu'[c].pc \notin BusyPcs
          /\ \A d \in Cpu \ {c} : cpu'[d] = cpu[d]
      BY <1>5 DEF KernelType, Update, afterwards, Idle, BusyPcs, Processors
    <3> QED BY <3>1, BusyStep
  <2>6. ASSUME NEW g \in Gen PROVE most'[g] + Cardinality(Busy)' <= calls
    <3>1. most[g] + Cardinality(Busy) <= calls
      BY DEF Counted
    <3> QED BY <1>1, <2>3, <2>5, <3>1
  <2>7. \A g \in Gen : g >= nextGen + 1 => most'[g] = 0
    BY <1>1, <2>3 DEF Counted
  <2> QED BY <2>2, <2>4, <2>6, <2>7 DEF Counted
<1>6. ASSUME NEW c \in Cpu, TakeOver(c) \/ UpdateExists(c) \/ LookAgain(c) PROVE Counted'
  <2>1. cpu[c].pc \in BusyPcs
    BY <1>6 DEF TakeOver, UpdateExists, LookAgain, BusyPcs
  <2>2. UNCHANGED <<elem, most, nextGen, calls>> /\ \A d \in Cpu \ {c} : cpu'[d] = cpu[d]
    BY <1>6 DEF KernelType, TakeOver, UpdateExists, LookAgain
  <2> QED BY <1>2, <2>1, <2>2
<1>7. ASSUME NEW c \in Cpu, Submit(c) \/ Delete(c) PROVE Counted'
  <2>1. cpu'[c].pc \notin BusyPcs
    BY <1>7 DEF KernelType, Submit, Delete, afterwards, Idle, BusyPcs, Processors
  <2>2. UNCHANGED <<elem, most, nextGen, calls>> /\ \A d \in Cpu \ {c} : cpu'[d] = cpu[d]
    BY <1>7 DEF KernelType, Submit, Delete
  <2> QED BY <1>2, <2>1, <2>2
<1>8. ASSUME NEW c \in Cpu, NEW k \in Key, SocketDestroyed(c, k) PROVE Counted'
  <2>1. cpu'[c].pc \notin BusyPcs
    BY <1>8 DEF KernelType, SocketDestroyed, BusyPcs
  <2>2. UNCHANGED <<elem, most, nextGen, calls>> /\ \A d \in Cpu \ {c} : cpu'[d] = cpu[d]
    BY <1>8 DEF KernelType, SocketDestroyed
  <2> QED BY <1>2, <2>1, <2>2
<1>9. CASE UNCHANGED <<elem, most, nextGen, calls, cpu>>
  BY <1>9 DEF Counted, Busy
<1> QED BY <1>3, <1>4, <1>5, <1>6, <1>7, <1>8, <1>9
        DEF Next, Program, Reader, EvictLRU, ReadLast, StartSweep, SweepEntry, EndSweep,
            AbortSweep, kernel

(***************************************************************************)
(* Last totals.                                                            *)
(***************************************************************************)
(* Processor w is about to replace or remove the entry of key k. *)
Writing(w, k) ==
  w \in Cpu /\ cpu[w].pc \in {"update", "delete"} /\ cpu[w].key = k /\ cpu[w].ptr # None

(* Key k holds generation g. *)
Holds(k, g) == Live(k) /\ elem[table[k]].gen = g

(* What Taken says of one record, whose generation is not stray. *)
Single(i) ==
  /\ ring[i].gen \notin ended
  /\ \A j \in 1..Len(ring) : ring[j].gen = ring[i].gen => j = i
  /\ \A k \in Key : Holds(k, ring[i].gen) => Writing(ring[i].writer, k)

RecordTaken(i) ==
  /\ ring[i].gen \in copied
  /\ ring[i].gen \in Gen => ring[i].total <= most[ring[i].gen]
  /\ ring[i].gen \notin strays => Single(i)

LEMMA TakenRecords ==
  /\ Taken <=> /\ copied \subseteq 1..(nextGen - 1) /\ ended \subseteq copied
               /\ \A i \in 1..Len(ring) : RecordTaken(i)
  /\ Taken' <=> /\ copied' \subseteq 1..(nextGen' - 1) /\ ended' \subseteq copied'
                /\ \A i \in 1..Len(ring') : RecordTaken(i)'
  BY DEF Taken, RecordTaken, Single, Holds, Writing

LEMMA RecordFields ==
  ASSUME KernelType, NEW i \in 1..Len(ring)
  PROVE  ring[i].gen \in Nat /\ ring[i].total \in Nat /\ ring[i].writer \in Cpu \cup {None}
<1>1. ring[i] \in Records
  BY DEF KernelType
<1> QED BY <1>1 DEF Records

(* A step of the kernel program that takes no total. *)
LEMMA NothingTaken ==
  ASSUME KernelType, Taken, Ends,
         UNCHANGED <<ring, copied, strays, ended>>,
         nextGen' \in Nat, nextGen' >= nextGen,
         \A g \in Gen : most'[g] \in Nat /\ most'[g] >= most[g],
         \A k \in Key, g \in 1..(nextGen - 1) : Holds(k, g)' => Holds(k, g),
         \A k \in Key, g \in 1..(nextGen - 1), w \in Cpu :
           Holds(k, g)' /\ Writing(w, k) => Writing(w, k)'
  PROVE  Taken' /\ Ends'
<1>1. nextGen \in Nat /\ copied \subseteq 1..(nextGen - 1) /\ ended \subseteq copied
  BY TakenRecords DEF KernelType
<1>2. ASSUME NEW i \in 1..Len(ring) PROVE RecordTaken(i)'
  <2> DEFINE g == ring[i].gen
  <2>1. RecordTaken(i) /\ g \in 1..(nextGen - 1)
    BY <1>1, <1>2, TakenRecords DEF RecordTaken
  <2>2. g \in Gen => ring[i].total <= most'[g]
    <3>1. g \in Gen => ring[i].total <= most[g] /\ most[g] \in Nat
      BY <2>1 DEF RecordTaken, KernelType
    <3> QED BY <3>1, RecordFields
  <2>3. g \notin strays => Single(i)'
    <3>1. SUFFICES ASSUME g \notin strays PROVE Single(i)'
      OBVIOUS
    <3>2. Single(i)
      BY <2>1, <3>1 DEF RecordTaken
    <3>3. ASSUME NEW k \in Key, Holds(k, g)' PROVE Writing(ring[i].writer, k)'
      <4>1. Holds(k, g)
        BY <2>1, <3>3
      <4>2. Writing(ring[i].writer, k) /\ ring[i].writer \in Cpu
        BY <3>2, <4>1 DEF Single, Writing
      <4> QED BY <2>1, <3>3, <4>2
    <3> QED BY <3>2, <3>3 DEF Single, Holds, Writing
  <2> QED BY <2>1, <2>2, <2>3 DEF RecordTaken
<1>3. copied' \subseteq 1..(nextGen' - 1)
  <2>1. copied' = copied OBVIOUS
  <2>2. PICK n \in Nat : n = nextGen BY <1>1
  <2>3. PICK m \in Nat : m = nextGen' OBVIOUS
  <2>4. n <= m BY <2>2, <2>3
  <2>5. 1..(n - 1) \subseteq 1..(m - 1) BY <2>4
  <2>6. QED BY <1>1, <2>1, <2>2, <2>3, <2>5
<1>4. Ends'
  <2>1. SUFFICES ASSUME NEW k \in Key, Live(k)', (elem[table[k]].gen)' \notin strays,
                        (elem[table[k]].gen)' \in ended
                 PROVE  FALSE
    BY DEF Ends, Live
  <2>2. PICK g \in 1..(nextGen - 1) : g = (elem[table[k]].gen)'
    BY <1>1, <2>1
  <2>3. Holds(k, g)
    BY <2>1, <2>2 DEF Holds, Live
  <2> QED BY <2>1, <2>2, <2>3 DEF Ends, Holds
<1> QED BY <1>1, <1>2, <1>3, <1>4, TakenRecords

LEMMA MostGrows ==
  ASSUME KernelType, Generated, Counted, Next
  PROVE  /\ \A g \in Gen : most'[g] \in Nat /\ most[g] \in Nat /\ most'[g] >= most[g]
         /\ nextGen' \in Nat /\ nextGen \in Nat /\ nextGen' >= nextGen
<1>1. nextGen' \in Nat /\ nextGen \in Nat /\ \A g \in Gen : most'[g] \in Nat /\ most[g] \in Nat
  BY KernelTypeStep DEF KernelType
<1>2. CASE UNCHANGED <<most, nextGen>>
  BY <1>1, <1>2
<1>3. ASSUME NEW c \in Cpu, Add(c) PROVE UNCHANGED nextGen /\ \A g \in Gen : most'[g] >= most[g]
  BY <1>1, <1>3 DEF Add
<1>4. ASSUME NEW c \in Cpu, Update(c)
      PROVE  nextGen' >= nextGen /\ \A g \in Gen : most'[g] >= most[g]
  <2>1. most' = [most EXCEPT ![nextGen] = 1] /\ nextGen' = nextGen + 1
    BY <1>4 DEF Update
  <2>2. \A g \in Gen : g = nextGen => most[g] = 0
    BY <1>1 DEF Counted
  <2>3. \A g \in Gen : most'[g] = IF g = nextGen THEN 1 ELSE most[g]
    BY <2>1 DEF KernelType
  <2> QED BY <1>1, <2>1, <2>2, <2>3
<1>5. (\E c \in Cpu : Add(c) \/ Update(c)) \/ UNCHANGED <<most, nextGen>>
  BY DEF Next, Program, Reader, Call, TakeOver, UpdateExists, LookAgain, Submit,
         SocketDestroyed, Delete, EvictLRU, ReadLast, StartSweep, SweepEntry, EndSweep,
         AbortSweep, kernel
<1> QED BY <1>1, <1>2, <1>3, <1>4, <1>5

(* A total is taken of the entry at e, by a processor that will replace or  *)
(* remove what key k has.                                                   *)
LEMMA TotalTaken ==
  ASSUME KernelType, Generated, Counted, Taken, Ends,
         NEW c \in Cpu, NEW k \in Key, NEW e \in Elem, elem[e].gen # 0,
         copyTotal(c, k, e), cpu[c].pc \in {"idle", "takeover"},
         UNCHANGED <<table, elem, nextGen, most, ended>>,
         \A d \in Cpu \ {c} : cpu'[d] = cpu[d],
         cpu'[c].pc \in {"update", "delete"}, cpu'[c].key = k, cpu'[c].ptr = e
  PROVE  Taken' /\ Ends'
<1> DEFINE g == elem[e].gen
<1>1. /\ nextGen \in Nat /\ copied \subseteq 1..(nextGen - 1) /\ ended \subseteq copied
      /\ g \in 1..(nextGen - 1)
  BY TakenRecords DEF KernelType, Generated, Entries
<1>2. copied' = copied \cup {g} /\ strays \subseteq strays'
  BY DEF copyTotal
<1>3. e # None
  BY IoTotalsAssumption
<1>4. g \notin strays' => g \notin copied /\ \A j \in Key \ {k} : table[j] # e
  BY DEF copyTotal, elsewhere
<1>5. \A j \in Key : \A h : Holds(j, h)' <=> Holds(j, h)
  BY DEF Holds, Live
<1>6. \A w, j : Writing(w, j) => Writing(w, j)'
  BY DEF Writing
<1>7. ring \in Seq(Records) /\ record(c, e) \in Records /\ Len(ring) \in Nat
  BY RecordTypes DEF KernelType
<1>8. \/ ring' = ring
      \/ /\ Len(ring') = Len(ring) + 1 /\ ring'[Len(ring) + 1] = record(c, e)
         /\ \A i \in 1..Len(ring) : ring'[i] = ring[i]
  BY <1>7 DEF copyTotal
<1>9. ASSUME NEW i \in 1..Len(ring), ring'[i] = ring[i] PROVE RecordTaken(i)'
  <2>1. RecordTaken(i)
    BY TakenRecords
  <2>2. ring[i].gen \notin strays' => Single(i)'
    <3>1. SUFFICES ASSUME ring[i].gen \notin strays' PROVE Single(i)'
      OBVIOUS
    <3>2. Single(i)
      BY <1>2, <2>1, <3>1 DEF RecordTaken
    <3>3. ASSUME NEW j \in 1..Len(ring'), ring'[j].gen = ring[i].gen PROVE j = i
      <4>1. CASE j \in 1..Len(ring) /\ ring'[j] = ring[j]
        BY <3>2, <3>3, <4>1 DEF Single
      <4>2. CASE ring'[j] = record(c, e)
        <5>1. ring[i].gen = g
          BY <3>3, <4>2 DEF record
        <5> QED BY <1>4, <2>1, <3>1, <5>1 DEF RecordTaken
      <4> QED BY <1>7, <1>8, <4>1, <4>2
    <3>4. PICK h, w : h = ring[i].gen /\ w = ring[i].writer
      OBVIOUS
    <3>5. \A j \in Key : Holds(j, h)' => Writing(w, j)'
      BY <1>5, <1>6, <3>2, <3>4 DEF Single
    <3>6. ring[i].gen \notin ended'
      BY <3>2 DEF Single
    <3> QED BY <1>9, <3>3, <3>4, <3>5, <3>6 DEF Single, Holds, Writing
  <2> QED BY <1>2, <1>9, <2>1, <2>2 DEF RecordTaken
<1>10. ASSUME ring' # ring, NEW n, n = Len(ring) + 1 PROVE RecordTaken(n)'
  <2>1. PICK h : h = g
    OBVIOUS
  <2>2. /\ Len(ring') = n /\ ring'[n] = record(c, e)
        /\ \A i \in 1..Len(ring) : ring'[i] = ring[i]
    BY <1>8, <1>10
  <2>3. ring'[n].gen = g /\ ring'[n].total = elem[e].total /\ ring'[n].writer = c
    BY <2>2 DEF record
  <2>4. g \in Gen => elem[e].total <= most[g]
    BY DEF Counted, KernelType
  <2>5. ASSUME g \notin strays'
        PROVE  /\ g \notin ended
               /\ \A j \in 1..Len(ring') : ring'[j].gen = g => j = n
               /\ \A j \in Key : Holds(j, h)' => Writing(c, j)'
    <3>1. \A j \in 1..Len(ring) : ring[j].gen # g
      BY <1>4, <2>5, TakenRecords DEF RecordTaken
    <3>2. ASSUME NEW j \in Key, Holds(j, g) PROVE j = k
      <4>1. table[j] \in Elem /\ table[j] = e
        BY <1>1, <3>2 DEF Holds, Live, KernelType, Generated
      <4> QED BY <1>4, <2>5, <4>1
    <3>3. Writing(c, k)'
      BY <1>3 DEF Writing
    <3>4. g \notin ended
      BY <1>1, <1>4, <2>5
    <3>5. ASSUME NEW j \in 1..Len(ring'), ring'[j].gen = g PROVE j = n
      <4>1. j \in 1..Len(ring) \/ j = n
        BY <1>7, <1>10, <2>2
      <4> QED BY <2>2, <3>1, <3>5, <4>1
    <3>6. \A j \in Key : Holds(j, h)' => Writing(c, j)'
      BY <1>5, <2>1, <3>2, <3>3
    <3> QED BY <3>4, <3>5, <3>6
  <2>6. (ring[n].gen)' \notin strays' => Single(n)'
    <3>1. SUFFICES ASSUME h \notin strays' PROVE Single(n)'
      BY <2>3, <2>1
    <3>2. \A j \in Key : Holds(j, h)' => Writing(c, j)'
      BY <2>5, <2>1, <3>1
    <3> QED BY <2>3, <2>5, <2>1, <3>1, <3>2 DEF Single, Holds, Writing
  <2>7. (ring[n].gen)' \in copied'
    BY <1>2, <2>3
  <2>8. (ring[n].gen)' \in Gen => (ring[n].total)' <= most'[(ring[n].gen)']
    BY <2>3, <2>4
  <2> QED BY <2>6, <2>7, <2>8 DEF RecordTaken
<1>11. \A i \in 1..Len(ring') : RecordTaken(i)'
  <2>1. CASE ring' = ring
    BY <1>9, <2>1
  <2>2. CASE ring' # ring
    <3>1. /\ Len(ring') = Len(ring) + 1
          /\ \A i \in 1..Len(ring) : ring'[i] = ring[i]
      BY <1>8, <2>2
    <3>2. \A i \in 1..Len(ring') : i \in 1..Len(ring) \/ i = Len(ring) + 1
      BY <1>7, <3>1
    <3> QED BY <1>9, <1>10, <2>2, <3>1, <3>2
  <2> QED BY <2>1, <2>2
<1>12. Taken'
  BY <1>1, <1>2, <1>11, TakenRecords
<1>13. Ends'
  BY <1>2 DEF Ends, Live
<1> QED BY <1>12, <1>13

(* A last total is read: the entry was replaced or removed before. *)
LEMMA LastRead ==
  ASSUME KernelType, Taken, Ends, ReadLast
  PROVE  Taken' /\ Ends'
<1> DEFINE g == ring[1].gen
<1>1. /\ ring \in Seq(Records) /\ ring # <<>> /\ Len(ring) \in Nat /\ Len(ring) > 0
      /\ ring[1].writer = None /\ Head(ring) = ring[1]
  BY DEF KernelType, ReadLast
<1>2. /\ Len(ring') = Len(ring) - 1
      /\ \A i \in 1..Len(ring') : i + 1 \in 1..Len(ring) /\ ring'[i] = ring[i + 1]
  BY <1>1 DEF ReadLast
<1>3. /\ UNCHANGED <<table, elem, nextGen, cpu, most, copied, strays>>
      /\ ended' = ended \cup {g}
  BY <1>1 DEF ReadLast, kernel
<1>4. RecordTaken(1) /\ copied \subseteq 1..(nextGen - 1) /\ ended \subseteq copied
  BY <1>1, TakenRecords
<1>5. ASSUME NEW i \in 1..Len(ring') PROVE RecordTaken(i)'
  <2>1. RecordTaken(i + 1)
    BY <1>2, TakenRecords
  <2>2. PICK r : r = ring[i + 1]
    OBVIOUS
  <2>3. r.gen \notin strays => Single(i)'
    <3>1. SUFFICES ASSUME r.gen \notin strays PROVE Single(i)'
      OBVIOUS
    <3>2. Single(i + 1)
      BY <2>1, <2>2, <3>1 DEF RecordTaken
    <3>3. r.gen \notin ended'
      <4>1. 1 # i + 1 /\ 1 \in 1..Len(ring)
        BY <1>1
      <4> QED BY <1>3, <2>2, <3>2, <4>1 DEF Single
    <3>4. ASSUME NEW j \in 1..Len(ring'), ring'[j].gen = r.gen PROVE j = i
      <4>1. ring[j + 1].gen = r.gen /\ j + 1 \in 1..Len(ring)
        BY <1>2, <3>4
      <4>2. j + 1 = i + 1
        BY <2>2, <3>2, <4>1 DEF Single
      <4> QED BY <1>1, <1>2, <4>2
    <3>5. \A k \in Key : Holds(k, r.gen)' => Writing(r.writer, k)'
      BY <1>3, <2>2, <3>2 DEF Single, Holds, Live, Writing
    <3>6. ring'[i] = r
      BY <1>2, <2>2
    <3> QED BY <3>3, <3>4, <3>5, <3>6 DEF Single, Holds, Writing
  <2> QED BY <1>2, <1>3, <2>1, <2>2, <2>3 DEF RecordTaken
<1>6. Ends'
  <2>1. g \notin strays => \A k \in Key : ~Holds(k, g)
    BY <1>1, <1>4, IoTotalsAssumption DEF RecordTaken, Single, Writing
  <2> QED BY <1>3, <2>1 DEF Ends, Live, Holds
<1>7. copied' \subseteq 1..(nextGen' - 1) /\ ended' \subseteq copied'
  BY <1>3, <1>4 DEF RecordTaken
<1> QED BY <1>5, <1>6, <1>7, TakenRecords

LEMMA TakenStep ==
  ASSUME KernelType, Generated, Counted, Taken, Ends, Next
  PROVE  Taken' /\ Ends'
<1>1. /\ \A g \in Gen : most'[g] \in Nat /\ most[g] \in Nat /\ most'[g] >= most[g]
      /\ nextGen' \in Nat /\ nextGen \in Nat /\ nextGen' >= nextGen
  BY MostGrows
<1>2. ASSUME UNCHANGED <<table, ring, copied, strays, ended>>,
             \A e \in Elem : elem'[e].gen = elem[e].gen,
             \A w \in Cpu, k \in Key : Writing(w, k) => Writing(w, k)'
      PROVE  Taken' /\ Ends'
  <2>1. \A k \in Key, g \in 1..(nextGen - 1) : Holds(k, g)' => Holds(k, g)
    BY <1>2 DEF Holds, Live, KernelType
  <2> QED BY <1>1, <1>2, <2>1, NothingTaken
<1>3. ASSUME NEW c \in Cpu, \A d \in Cpu \ {c} : cpu'[d] = cpu[d],
             NEW k, ~Writing(c, k), NEW w \in Cpu, Writing(w, k)
      PROVE  Writing(w, k)'
  BY <1>3 DEF Writing
<1>4. ASSUME NEW c \in Cpu, NEW k \in Key, NEW p \in Owner, Call(c, k, p) PROVE Taken' /\ Ends'
  <2>1. /\ UNCHANGED <<table, elem, ring, copied, strays, ended>>
        /\ \A d \in Cpu \ {c} : cpu'[d] = cpu[d]
        /\ \A j : ~Writing(c, j)
    BY <1>4 DEF Call, KernelType, Writing, reader
  <2> QED BY <1>2, <1>3, <2>1
<1>5. ASSUME NEW c \in Cpu, Add(c) PROVE Taken' /\ Ends'
  <2>1. /\ UNCHANGED <<table, ring, copied, strays, ended>>
        /\ \A d \in Cpu \ {c} : cpu'[d] = cpu[d]
        /\ \A j : ~Writing(c, j)
    BY <1>5 DEF Add, KernelType, Writing, reader
  <2>2. \A e \in Elem : elem'[e].gen = elem[e].gen
    BY <1>5 DEF Add, KernelType, Entries
  <2> QED BY <1>2, <1>3, <2>1, <2>2
<1>6. ASSUME NEW c \in Cpu, UpdateExists(c) \/ LookAgain(c) PROVE Taken' /\ Ends'
  <2>1. /\ UNCHANGED <<table, elem, ring, copied, strays, ended>>
        /\ \A d \in Cpu \ {c} : cpu'[d] = cpu[d]
        /\ \A j : ~Writing(c, j)
    BY <1>6 DEF UpdateExists, LookAgain, KernelType, Writing, reader
  <2> QED BY <1>2, <1>3, <2>1
<1>7. ASSUME NEW c \in Cpu, Update(c) PROVE Taken' /\ Ends'
  <2>1. PICK k \in Key : k = cpu[c].key
    BY <1>7, UpdateStarts
  <2>2. PICK e \in Elem :
          /\ \A j \in Key : table[j] # e
          /\ table' = [table EXCEPT ![k] = e]
          /\ elem' = [elem EXCEPT ![e] = [gen |-> nextGen, owner |-> cpu[c].owner, total |-> 1]]
    BY <1>7, <2>1, UpdateStarts
  <2>3. /\ UNCHANGED <<ring, copied, strays, ended>>
        /\ \A d \in Cpu \ {c} : cpu'[d] = cpu[d]
        /\ \A j \in Key \ {k} : ~Writing(c, j)
    BY <1>7, <2>1 DEF Update, KernelType, Writing, reader
  <2>4. ASSUME NEW g \in 1..(nextGen - 1) PROVE ~Holds(k, g)'
    <3>1. table'[k] = e /\ elem'[e].gen = nextGen
      BY <2>2 DEF KernelType
    <3> QED BY <1>1, <3>1 DEF Holds
  <2>5. ASSUME NEW j \in Key, NEW g \in 1..(nextGen - 1), Holds(j, g)' PROVE j # k /\ Holds(j, g)
    <3>1. j # k
      BY <2>4, <2>5
    <3> QED BY <2>2, <2>3, <2>5, <3>1 DEF Holds, Live, KernelType
  <2>6. ASSUME NEW j \in Key, NEW g \in 1..(nextGen - 1), NEW w \in Cpu, Holds(j, g)', Writing(w, j)
        PROVE  Writing(w, j)'
    BY <1>3, <2>3, <2>5, <2>6
  <2> QED BY <1>1, <2>3, <2>5, <2>6, NothingTaken
<1>8. ASSUME NEW c \in Cpu, Delete(c) PROVE Taken' /\ Ends'
  <2>1. PICK k \in Key : k = cpu[c].key
    BY <1>8 DEF Delete, Generated
  <2>2. /\ UNCHANGED <<elem, ring, copied, strays, ended>>
        /\ table' = [table EXCEPT ![k] = None]
        /\ \A d \in Cpu \ {c} : cpu'[d] = cpu[d]
        /\ \A j \in Key \ {k} : ~Writing(c, j)
    BY <1>8, <2>1 DEF Delete, KernelType, Writing, reader
  <2>3. ASSUME NEW j \in Key, NEW g \in 1..(nextGen - 1), Holds(j, g)' PROVE j # k /\ Holds(j, g)
    BY <2>2, <2>3 DEF Holds, Live, KernelType
  <2>4. ASSUME NEW j \in Key, NEW g \in 1..(nextGen - 1), NEW w \in Cpu, Holds(j, g)', Writing(w, j)
        PROVE  Writing(w, j)'
    BY <1>3, <2>2, <2>3, <2>4
  <2> QED BY <1>1, <2>2, <2>3, <2>4, NothingTaken
<1>9. ASSUME NEW k \in Key, EvictLRU(k) PROVE Taken' /\ Ends'
  <2>1. UNCHANGED <<elem, cpu, ring, copied, strays, ended>> /\ table' = [table EXCEPT ![k] = None]
    BY <1>9 DEF EvictLRU, reader
  <2>2. ASSUME NEW j \in Key, NEW g \in 1..(nextGen - 1), Holds(j, g)' PROVE Holds(j, g)
    BY <2>1, <2>2 DEF Holds, Live, KernelType
  <2>3. \A j \in Key, w \in Cpu : Writing(w, j) => Writing(w, j)'
    BY <2>1 DEF Writing
  <2> QED BY <1>1, <2>1, <2>2, <2>3, NothingTaken
<1>10. ASSUME NEW c \in Cpu, TakeOver(c) PROVE Taken' /\ Ends'
  <2>1. PICK k \in Key, e \in Elem :
          k = cpu[c].key /\ e = cpu[c].ptr /\ elem[e].gen # 0 /\ copyTotal(c, k, e)
    BY <1>10 DEF TakeOver, Generated
  <2>2. UNCHANGED <<table, elem, nextGen, most, ended>> /\ cpu[c].pc = "takeover"
    BY <1>10 DEF TakeOver, reader
  <2>3. /\ \A d \in Cpu \ {c} : cpu'[d] = cpu[d]
        /\ cpu'[c].pc = "update" /\ cpu'[c].key = k /\ cpu'[c].ptr = e
    BY <1>10, <2>1 DEF TakeOver, KernelType, Processors
  <2> QED BY <2>1, <2>2, <2>3, TotalTaken
<1>11. ASSUME NEW c \in Cpu, NEW k \in Key, SocketDestroyed(c, k) PROVE Taken' /\ Ends'
  <2>1. PICK e \in Elem : e = table[k] /\ elem[e].gen # 0 /\ copyTotal(c, k, e)
    BY <1>11 DEF SocketDestroyed, Generated, KernelType, Live
  <2>2. UNCHANGED <<table, elem, nextGen, most, ended>> /\ cpu[c].pc = "idle"
    BY <1>11 DEF SocketDestroyed, reader
  <2>3. /\ \A d \in Cpu \ {c} : cpu'[d] = cpu[d]
        /\ cpu'[c].pc = "delete" /\ cpu'[c].key = k /\ cpu'[c].ptr = e
    BY <1>11, <2>1 DEF SocketDestroyed, KernelType
  <2> QED BY <2>1, <2>2, <2>3, TotalTaken
<1>12. ASSUME NEW c \in Cpu, Submit(c) PROVE Taken' /\ Ends'
  <2>1. /\ UNCHANGED <<table, elem, nextGen, most, copied, strays, ended>>
        /\ \A d \in Cpu \ {c} : cpu'[d] = cpu[d]
        /\ \A j : ~Writing(c, j)
    BY <1>12 DEF Submit, KernelType, Writing, reader
  <2>2. ring \in Seq(Records) /\ Len(ring') = Len(ring) /\ Len(ring) \in Nat
    BY <1>12 DEF Submit, KernelType
  <2>3. ASSUME NEW i \in 1..Len(ring)
        PROVE  /\ ring'[i].gen = ring[i].gen /\ ring'[i].total = ring[i].total
               /\ ring[i].writer # c => ring'[i] = ring[i]
    <3>1. ring[i] \in Records /\ i \in DOMAIN ring
      BY <2>2
    <3> QED BY <1>12, <3>1 DEF Submit, Records
  <2>4. ASSUME NEW i \in 1..Len(ring) PROVE RecordTaken(i)'
    <3>1. RecordTaken(i)
      BY TakenRecords
    <3>2. PICK r : r = ring[i]
      OBVIOUS
    <3>3. ASSUME r.gen \notin strays PROVE Single(i)'
      <4>1. Single(i)
        BY <3>1, <3>2, <3>3 DEF RecordTaken
      <4>2. ASSUME NEW k \in Key, Holds(k, r.gen)' PROVE ring'[i] = r /\ Writing(r.writer, k)'
        <5>1. Writing(r.writer, k)
          BY <2>1, <3>2, <4>1, <4>2 DEF Single, Holds, Live
        <5>2. r.writer # c
          BY <2>1, <5>1
        <5> QED BY <2>1, <2>3, <3>2, <5>1, <5>2 DEF Writing
      <4>3. ring'[i].gen = r.gen
        BY <2>3, <3>2
      <4>4. \A j \in 1..Len(ring') : ring'[j].gen = r.gen => j = i
        BY <2>2, <2>3, <3>2, <4>1 DEF Single
      <4>5. r.gen \notin ended'
        BY <2>1, <3>2, <4>1 DEF Single
      <4> QED BY <4>2, <4>3, <4>4, <4>5 DEF Single, Holds, Writing
    <3> QED BY <2>1, <2>3, <3>1, <3>2, <3>3 DEF RecordTaken
  <2>5. Ends'
    BY <2>1 DEF Ends, Live
  <2> QED BY <2>1, <2>2, <2>4, <2>5, TakenRecords
<1>13. CASE UNCHANGED <<kernel, ring, ended>>
  BY <1>2, <1>13 DEF kernel, Writing
<1>14. StartSweep \/ (\E k \in Key : SweepEntry(k)) \/ EndSweep \/ AbortSweep
         => UNCHANGED <<kernel, ring, ended>>
  BY DEF StartSweep, SweepEntry, EndSweep, AbortSweep
<1> QED BY <1>4, <1>5, <1>6, <1>7, <1>8, <1>9, <1>10, <1>11, <1>12, <1>13, <1>14, LastRead
        DEF Next, Program, Reader

(***************************************************************************)
(* What the reader reports.                                                *)
(***************************************************************************)
(* A total of an entry fits the word, so that a report of it is exact. *)
LEMMA TotalsFit ==
  ASSUME KernelType, ReaderType, Counted, Read, NEW g \in Gen
  PROVE  /\ most[g] \in Nat /\ most[g] < Word /\ g \in Nat
         /\ Seen(g) \in Nat /\ Seen(g) <= most[g]
<1>1. most[g] \in Nat /\ most[g] <= calls /\ calls \in 0..MaxCalls /\ g \in Nat
  BY BusyCount DEF KernelType, Counted, Gen
<1>2. Seen(g) \in Nat /\ Seen(g) <= most[g]
  BY <1>1 DEF Read, Seen, ReaderType
<1> QED BY <1>1, <1>2, Words

(* The report of a total makes what was reported of an entry that total. *)
LEMMA TotalReported ==
  ASSUME KernelType, ReaderType, Counted, Read, NEW g \in Gen, g \notin ended \cup forgotten,
         NEW total \in Nat, total <= most[g]
  PROVE  report(g, added(total, Seen(g))) = total
<1>1. reported[g] = Seen(g)
  BY DEF Read
<1>2. total \in 0..(Word - 1) /\ Seen(g) \in 0..(Word - 1)
  BY TotalsFit, Words
<1> QED BY <1>1, <1>2, ReportIsTotal

(* A last total is that of an entry whose end was not read before, unless   *)
(* the entry is stray.                                                      *)
LEMMA LastReported ==
  ASSUME KernelType, ReaderType, Counted, Taken, Read, ReadLast
  PROVE  \E r \in Records :
           /\ r = Head(ring) /\ ended' = ended \cup {r.gen} /\ r.gen < nextGen
           /\ r.gen \in Gen => r.total <= most[r.gen]
           /\ r.gen \notin strays => r.gen \notin ended
           /\ entries' = Restrict(entries, DOMAIN entries \ {r.gen})
           /\ reported' = [reported EXCEPT ![r.gen] = report(r.gen, added(r.total, Seen(r.gen)))]
           /\ r.gen \in Gen \ (ended \cup forgotten) => reported'[r.gen] = r.total
<1>1. PICK r \in Records : r = Head(ring) /\ r = ring[1] /\ 1 \in 1..Len(ring)
  BY DEF KernelType, ReadLast
<1>2. /\ ended' = ended \cup {r.gen}
      /\ entries' = Restrict(entries, DOMAIN entries \ {r.gen})
      /\ reported' = [reported EXCEPT ![r.gen] = report(r.gen, added(r.total, Seen(r.gen)))]
  BY <1>1 DEF ReadLast
<1>3. RecordTaken(1) /\ copied \subseteq 1..(nextGen - 1)
  BY <1>1, TakenRecords
<1>4. /\ r.gen \in Gen => r.total <= most[r.gen]
      /\ r.gen \notin strays => r.gen \notin ended
  BY <1>1, <1>3 DEF RecordTaken, Single
<1>5. r.gen \in 1..(nextGen - 1) /\ r.gen < nextGen
  <2>1. r.gen \in 1..(nextGen - 1)
    BY <1>1, <1>3 DEF RecordTaken
  <2>2. nextGen \in Nat
    BY DEF KernelType
  <2> QED BY <2>1, <2>2
<1>6. ASSUME r.gen \in Gen \ (ended \cup forgotten) PROVE reported'[r.gen] = r.total
  <2>1. r.total \in Nat /\ r.total <= most[r.gen]
    BY <1>4, <1>6 DEF Records
  <2>2. report(r.gen, added(r.total, Seen(r.gen))) = r.total
    BY <1>6, <2>1, TotalReported
  <2> QED BY <1>2, <1>6, <2>2 DEF ReaderType
<1> QED BY <1>1, <1>2, <1>4, <1>5, <1>6

LEMMA ReadStep ==
  ASSUME KernelType, ReaderType, Generated, Counted, Taken, Ends, Read, Next
  PROVE  Read'
<1>1. /\ \A g \in Gen : most'[g] \in Nat /\ most[g] \in Nat /\ most'[g] >= most[g]
      /\ nextGen' \in Nat /\ nextGen \in Nat /\ nextGen' >= nextGen
  BY MostGrows
<1>2. DOMAIN entries \subseteq Nat /\ \A g \in DOMAIN entries : entries[g] \in Nat
  BY DEF ReaderType
<1>3. \A g \in Gen : reported[g] \in Nat
  BY Words DEF ReaderType
<1>4. ASSUME UNCHANGED <<entries, reported, ended, forgotten>>, strays \subseteq strays'
      PROVE  Read'
  <2>1. \A g \in DOMAIN entries : g < nextGen'
    BY <1>1, <1>2 DEF Read
  <2>2. \A g \in Gen \cap DOMAIN entries : entries[g] <= most'[g]
    BY <1>1, <1>2 DEF Read
  <2>3. \A g \in Gen : reported[g] <= most[g] => reported[g] <= most'[g]
    BY <1>1, <1>3
  <2> QED BY <1>4, <2>1, <2>2, <2>3 DEF Read, Seen
<1>5. CASE ReadLast
  <2>1. PICK r \in Records :
           /\ r = Head(ring) /\ ended' = ended \cup {r.gen} /\ r.gen < nextGen
           /\ r.gen \in Gen => r.total <= most[r.gen]
           /\ r.gen \notin strays => r.gen \notin ended
           /\ entries' = Restrict(entries, DOMAIN entries \ {r.gen})
           /\ reported' = [reported EXCEPT ![r.gen] = report(r.gen, added(r.total, Seen(r.gen)))]
           /\ r.gen \in Gen \ (ended \cup forgotten) => reported'[r.gen] = r.total
    BY <1>5, LastReported
  <2>2. UNCHANGED <<most, nextGen, strays, forgotten>>
    BY <1>5 DEF ReadLast, kernel
  <2>3. /\ DOMAIN entries' = DOMAIN entries \ {r.gen}
        /\ \A g \in DOMAIN entries' : entries'[g] = entries[g]
    BY <2>1 DEF Restrict
  <2>4. \A g \in Gen \ {r.gen} : reported'[g] = reported[g] /\ Seen(g)' = Seen(g)
    BY <2>1, <2>3 DEF ReaderType, Seen
  <2>5. \A g \in Gen \ (ended' \cup forgotten') : reported'[g] = Seen(g)'
    BY <2>1, <2>2, <2>4 DEF Read
  <2>6. ASSUME NEW g \in (Gen \cap ended') \ (forgotten' \cup strays')
        PROVE  g \notin DOMAIN entries' /\ reported'[g] <= most'[g]
    <3>1. CASE g = r.gen
      BY <2>1, <2>2, <2>3, <3>1
    <3>2. CASE g # r.gen
      BY <2>1, <2>2, <2>3, <2>4, <3>2 DEF Read
    <3> QED BY <3>1, <3>2
  <2> QED BY <2>2, <2>3, <2>5, <2>6 DEF Read
<1>6. ASSUME NEW k \in Key, SweepEntry(k) PROVE Read'
  <2>1. /\ UNCHANGED <<most, nextGen, strays, ended, forgotten>> /\ entries' = running(k)
        /\ reported' = [g \in Gen |-> IF g \in DOMAIN running(k)
                                      THEN report(g, added(running(k)[g], Seen(g)))
                                      ELSE reported[g]]
    BY <1>6 DEF SweepEntry, kernel
  <2>2. ASSUME NEW g \in swept(k)
        PROVE  /\ g < nextGen /\ elem[table[k]].total \in Nat
               /\ g \in Gen => elem[table[k]].total = most[g]
               /\ g \notin strays => g \notin ended
    <3>1. Live(k) /\ g = elem[table[k]].gen
      BY <2>2 DEF swept
    <3>2. table[k] \in Elem
      BY <3>1 DEF KernelType, Live
    <3>3. elem[table[k]] \in Entries
      BY <3>2 DEF KernelType
    <3> QED BY <3>1, <3>2, <3>3 DEF Entries, Generated, Counted, Ends
  <2>3. /\ DOMAIN entries' = DOMAIN entries \cup swept(k)
        /\ \A g \in DOMAIN entries' : IF g \in swept(k) THEN entries'[g] = elem[table[k]].total
                                                        ELSE entries'[g] = entries[g]
    BY <2>1 DEF running
  <2>4. \A g \in DOMAIN entries' : g < nextGen'
    BY <2>1, <2>2, <2>3 DEF Read
  <2>5. \A g \in Gen \cap DOMAIN entries' : entries'[g] \in Nat /\ entries'[g] <= most[g]
    BY <1>1, <1>2, <2>2, <2>3 DEF Read
  <2> HIDE DEF running
  <2>6. ASSUME NEW g \in Gen \ (ended' \cup forgotten') PROVE reported'[g] = Seen(g)'
    <3>1. CASE g \in DOMAIN entries'
      <4>1. report(g, added(entries'[g], Seen(g))) = entries'[g]
        BY <2>1, <2>5, <2>6, <3>1, TotalReported
      <4> QED BY <2>1, <3>1, <4>1 DEF Seen
    <3>2. CASE g \notin DOMAIN entries'
      BY <2>1, <2>3, <2>6, <3>2 DEF Seen, Read
    <3> QED BY <3>1, <3>2
  <2>7. ASSUME NEW g \in (Gen \cap ended') \ (forgotten' \cup strays')
        PROVE  g \notin DOMAIN entries' /\ reported'[g] <= most'[g]
    <3>1. g \notin DOMAIN entries'
      BY <2>1, <2>2, <2>3, <2>7 DEF Read
    <3> QED BY <2>1, <2>7, <3>1 DEF Read
  <2> QED BY <2>1, <2>4, <2>5, <2>6, <2>7 DEF Read
<1>7. CASE EndSweep
  <2>1. /\ UNCHANGED <<most, nextGen, strays, ended, reported>> /\ entries' = prune
        /\ forgotten' = forgotten \cup (DOMAIN entries \ DOMAIN prune)
    BY <1>7 DEF EndSweep, kernel
  <2>2. DOMAIN prune \subseteq DOMAIN entries /\ \A g \in DOMAIN prune : prune[g] = entries[g]
    BY DEF prune, Restrict
  <2> HIDE DEF prune
  <2>3. \A g \in Gen \ forgotten' : Seen(g)' = Seen(g)
    BY <2>1, <2>2 DEF Seen
  <2> QED BY <2>1, <2>2, <2>3 DEF Read
<1>8. (ReadLast \/ (\E k \in Key : SweepEntry(k)) \/ EndSweep)
        \/ (UNCHANGED <<entries, reported, ended, forgotten>> /\ strays \subseteq strays')
  BY DEF Next, Program, Reader, Call, Add, TakeOver, Update, UpdateExists, LookAgain, Submit,
         SocketDestroyed, Delete, EvictLRU, StartSweep, AbortSweep, copyTotal, kernel, reader
<1> QED BY <1>4, <1>5, <1>6, <1>7, <1>8

(***************************************************************************)
(* The theorems.                                                           *)
(***************************************************************************)
LEMMA IInvInit == Init => IInv
<1> SUFFICES ASSUME Init PROVE IInv
  OBVIOUS
<1>1. KernelType
  <2>1. Fresh \in Entries /\ Idle \in Processors
    BY DEF Fresh, Entries, Idle, Processors, Pcs
  <2> QED BY <2>1, Words DEF Init, KernelType
<1>2. ReaderType
  BY Words DEF Init, ReaderType
<1>3. Generated
  BY DEF Init, Generated, Live, Fresh, Idle
<1>4. Counted
  <2>1. Busy = {}
    BY DEF Init, Busy, Idle
  <2>2. Cardinality(Busy) = 0
    BY <2>1, FS_EmptySet
  <2> QED BY <2>2 DEF Init, Counted, Fresh, Gen
<1>5. Taken /\ Ends /\ Read
  BY DEF Init, Taken, Ends, Read, Live, Seen
<1> QED BY <1>1, <1>2, <1>3, <1>4, <1>5 DEF IInv

LEMMA IInvNext == IInv /\ [Next]_vars => IInv'
<1>1. ASSUME IInv, Next PROVE IInv'
  BY <1>1, KernelTypeStep, ReaderTypeStep, GeneratedStep, CountedStep, TakenStep, ReadStep
     DEF IInv
<1>2. ASSUME IInv, UNCHANGED vars PROVE IInv'
  BY <1>2 DEF IInv, KernelType, ReaderType, Generated, Counted, Taken, Ends, Read, Live, Seen,
              Busy, vars, kernel, reader
<1> QED BY <1>1, <1>2

(* The strengthened invariant holds: what is counted, taken and read.       *)
THEOREM TotalsSound == Spec => []IInv
  BY IInvInit, IInvNext, PTL DEF Spec

(* copy_total takes the last total of an entry that is then removed or      *)
(* replaced, and last() reads it: the bytes reported for an entry are the   *)
(* bytes added to it or fewer, but for the races named at the property.     *)
THEOREM ReportsBounded == Spec => []ReportedAtMostAdded
<1>1. IInv => ReportedAtMostAdded
  <2>1. SUFFICES ASSUME IInv PROVE ReportedAtMostAdded
    OBVIOUS
  <2>2. ASSUME NEW g \in Gen \ (forgotten \cup strays) PROVE reported[g] <= most[g]
    BY <2>1, TotalsFit DEF IInv, Read
  <2> QED BY <2>1, <2>2 DEF IInv, Ends, ReportedAtMostAdded
<1> QED BY <1>1, TotalsSound, PTL

(* last() reports an entry's final total whole, however many sweeps saw the *)
(* entry before.                                                            *)
THEOREM LastTotalsExact == Spec => LastIsExact
<1> DEFINE Exact == \A g \in Gen : g \in ended' \ ended /\ g \notin forgotten
                                     => reported'[g] = Head(ring).total
<1>1. IInv /\ [Next]_vars => [Exact]_vars
  <2>1. ended' = ended => Exact
    OBVIOUS
  <2>2. ASSUME IInv, ReadLast PROVE Exact
    BY <2>2, LastReported DEF IInv
  <2>3. Next => ReadLast \/ ended' = ended
    BY DEF Next, Program, Reader, Call, Add, TakeOver, Update, UpdateExists, LookAgain, Submit,
           SocketDestroyed, Delete, EvictLRU, StartSweep, SweepEntry, EndSweep, AbortSweep, reader
  <2> QED BY <2>1, <2>2, <2>3
<1> QED BY <1>1, TotalsSound, PTL DEF Spec, LastIsExact

(***************************************************************************)
(* The goroutines of a run: the inductive invariant.                        *)
(***************************************************************************)
LoopPcs == {"select", "batch", "write", "close", "flush", "unmap", "exited"}
Closing == {"flush", "unmap", "exited"}

TypeOK ==
  /\ capture \in [Capture -> {"read", "offer", "held", "stopped"}]
  /\ packets \in Seq(Capture) /\ packetErrors \in Seq(Capture)
  /\ probe \in [Probe -> {"read", "ended"}]
  /\ queue \in [Probe -> Nat] /\ sent \in [Probe -> Nat]
  /\ open \subseteq Probe \cup {"packets"}
  /\ loop \in [pc : LoopPcs, of : SUBSET Capture, finished : BOOLEAN]
  /\ writer \in {"write", "done", "failed"}
  /\ frames \in Seq(Nat) /\ written \in Seq(Nat) /\ accepted \in Nat

(* The loop works on a block only in the case of the select that took it,   *)
(* and the rings are unmapped by the last step, when no Run is left.        *)
Rings ==
  /\ loop.of # {} => loop.pc = "batch"
  /\ mapped = Capture \/ (loop.pc = "exited" /\ mapped = {} /\ Ended)

(* A channel the loop no longer selects from is closed and empty: its       *)
(* senders have ended.                                                      *)
Channels ==
  /\ "packets" \notin open => Ended /\ packets = <<>>
  /\ \A p \in Probe : p \notin open => probe[p] = "ended" /\ queue[p] = 0
  /\ loop.finished => open = {}

(* The rows taken are the rows written and then those in the channel; the   *)
(* writer ends with none left, once the loop takes no more.                 *)
Output ==
  /\ Len(written) + Len(frames) = accepted
  /\ \A i \in 1..Len(written) : written[i] = i
  /\ \A i \in 1..Len(frames) : frames[i] = Len(written) + i
  /\ writer = "done" => frames = <<>> /\ loop.pc \in Closing
  /\ loop.pc \in {"unmap", "exited"} => writer # "write"

RunInv == TypeOK /\ Rings /\ Channels /\ Output

(***************************************************************************)
(* The steps of the capture sockets and of the probe readers.              *)
(***************************************************************************)
LEMMA StoppedStays ==
  ASSUME TypeOK, TypeOK', NEW s \in Capture,
         BlockReady(s) \/ Offer(s) \/ CaptureFails(s) \/ CaptureStops(s)
  PROVE  /\ Ended => Ended' /\ packets' = packets
         /\ UNCHANGED captures
<1>1. CASE BlockReady(s) BY <1>1 DEF TypeOK, BlockReady, Ended, captures
<1>2. CASE Offer(s) BY <1>2 DEF TypeOK, Offer, Ended, captures
<1>3. CASE CaptureFails(s) BY <1>3 DEF TypeOK, CaptureFails, Ended, captures
<1>4. CASE CaptureStops(s) BY <1>4 DEF TypeOK, CaptureStops, seesCancel, Ended, captures
<1>5. QED BY <1>1, <1>2, <1>3, <1>4

LEMMA CaptureTyped ==
  ASSUME TypeOK, NEW s \in Capture,
         BlockReady(s) \/ Offer(s) \/ CaptureFails(s) \/ CaptureStops(s)
  PROVE  TypeOK'
<1>1. CASE BlockReady(s) BY <1>1 DEF TypeOK, BlockReady, captures, output
<1>2. CASE Offer(s)
  <2>1. packets' \in Seq(Capture) BY <1>2, AppendProperties DEF TypeOK, Offer
  <2>2. QED BY <1>2, <2>1 DEF TypeOK, Offer, captures, output
<1>3. CASE CaptureFails(s)
  <2>1. packetErrors' \in Seq(Capture) BY <1>3, AppendProperties DEF TypeOK, CaptureFails
  <2>2. QED BY <1>3, <2>1 DEF TypeOK, CaptureFails, captures, output
<1>4. CASE CaptureStops(s) BY <1>4 DEF TypeOK, CaptureStops, captures, output
<1>5. QED BY <1>1, <1>2, <1>3, <1>4

LEMMA CaptureStep ==
  ASSUME RunInv, NEW s \in Capture,
         BlockReady(s) \/ Offer(s) \/ CaptureFails(s) \/ CaptureStops(s)
  PROVE  RunInv'
<1>1. TypeOK' BY CaptureTyped DEF RunInv
<1>2. /\ Ended => Ended' /\ packets' = packets
      /\ UNCHANGED captures
  BY <1>1, StoppedStays DEF RunInv
<1>3. Rings' BY <1>2 DEF RunInv, Rings, captures
<1>4. Channels' BY <1>2 DEF RunInv, Channels, captures
<1>5. Output' BY <1>2 DEF RunInv, Output, captures, output
<1>6. QED BY <1>1, <1>3, <1>4, <1>5 DEF RunInv

LEMMA ReaderStep ==
  ASSUME RunInv, NEW p \in Probe,
         Send(p) \/ ReaderFails(p) \/ LastBatch(p) \/ ReaderStops(p)
  PROVE  RunInv'
<1> USE SizesAssumption DEF RunInv
<1>1. TypeOK' /\ UNCHANGED readers
  <2>1. CASE Send(p)
    <3>1. queue' \in [Probe -> Nat] /\ sent' \in [Probe -> Nat] BY <2>1 DEF TypeOK, Send
    <3>2. QED BY <2>1, <3>1 DEF TypeOK, Send, readers, output
  <2>2. CASE ReaderFails(p) BY <2>2 DEF TypeOK, ReaderFails, readers, output
  <2>3. CASE LastBatch(p) BY <2>3 DEF TypeOK, LastBatch, readers, output
  <2>4. CASE ReaderStops(p) BY <2>4 DEF TypeOK, ReaderStops, readers, output
  <2>5. QED BY <2>1, <2>2, <2>3, <2>4
<1>2. Rings' BY <1>1 DEF Rings, readers, Ended
<1>3. ASSUME NEW q \in Probe, probe[q] = "ended", queue[q] = 0
      PROVE  probe'[q] = "ended" /\ queue'[q] = 0
  <2>1. q # p BY <1>3 DEF Send, ReaderFails, LastBatch, ReaderStops
  <2>2. CASE Send(p) BY <1>3, <2>1, <2>2 DEF TypeOK, Send
  <2>3. CASE ReaderFails(p) BY <1>3, <2>1, <2>3 DEF TypeOK, ReaderFails
  <2>4. CASE LastBatch(p) BY <1>3, <2>1, <2>4 DEF TypeOK, LastBatch
  <2>5. CASE ReaderStops(p) BY <1>3, <2>1, <2>5 DEF TypeOK, ReaderStops
  <2>6. QED BY <2>2, <2>3, <2>4, <2>5
<1>4. Channels' BY <1>1, <1>3 DEF Channels, readers, Ended
<1>5. Output' BY <1>1 DEF Output, readers, output
<1>6. QED BY <1>1, <1>2, <1>4, <1>5

(***************************************************************************)
(* The steps of the main loop.                                             *)
(***************************************************************************)
LEMMA TakeBatchStep == ASSUME RunInv, TakeBatch PROVE RunInv'
<1> USE DEF RunInv
<1>1. Head(packets) \in Capture /\ packets' \in Seq(Capture)
  BY HeadTailProperties DEF TypeOK, TakeBatch
<1>2. TypeOK' BY <1>1 DEF TypeOK, TakeBatch, output, LoopPcs
<1>3. Rings' BY DEF TypeOK, Rings, TakeBatch, Selecting, Ended
<1>4. Channels' BY DEF TypeOK, Channels, TakeBatch, Ended
<1>5. Output' BY DEF TypeOK, Output, TakeBatch, Selecting, Closing, output
<1>6. QED BY <1>2, <1>3, <1>4, <1>5

LEMMA ReleaseBatchStep == ASSUME RunInv, ReleaseBatch PROVE RunInv'
<1> USE DEF RunInv
<1>1. TypeOK' BY DEF TypeOK, ReleaseBatch, output, LoopPcs
<1>2. Ended => Ended' BY DEF Ended, ReleaseBatch
<1>3. Rings' BY <1>2 DEF TypeOK, Rings, ReleaseBatch
<1>4. Channels' BY <1>2 DEF TypeOK, Channels, ReleaseBatch
<1>5. Output' BY DEF TypeOK, Output, ReleaseBatch, Closing, output
<1>6. QED BY <1>1, <1>3, <1>4, <1>5

LEMMA TakeMessageStep == ASSUME RunInv, NEW p \in Probe, TakeMessage(p) PROVE RunInv'
<1> USE DEF RunInv
<1>1. TypeOK' BY DEF TypeOK, TakeMessage, output
<1>2. Rings' BY DEF Rings, TakeMessage, Ended
<1>3. Channels' BY DEF TypeOK, Channels, TakeMessage, Ended
<1>4. Output' BY DEF Output, TakeMessage, output
<1>5. QED BY <1>1, <1>2, <1>3, <1>4

LEMMA SeeClosedStep == ASSUME RunInv, SeeClosed PROVE RunInv'
<1> USE SourcesAssumption DEF RunInv
<1>1. TypeOK' BY DEF TypeOK, SeeClosed, sources, output
<1>2. Rings' BY DEF Rings, SeeClosed, Ended, sources
<1>3. Channels' BY DEF TypeOK, Channels, SeeClosed, Ended, sources
<1>4. Output' BY DEF Output, SeeClosed, output
<1>5. QED BY <1>1, <1>2, <1>3, <1>4

(* Steps that leave the sources, the channels and the rings alone. *)
LEMMA RunStep ==
  ASSUME RunInv, SeeError \/ Quit \/ Tick \/ Finish \/ CloseWriter \/ Flushed \/ Signal
  PROVE  RunInv'
<1> USE DEF RunInv
<1>1. UNCHANGED <<mapped, sources, open, output>>
  BY DEF SeeError, Quit, Tick, Finish, CloseWriter, Flushed, Signal
<1>2. /\ loop' \in [pc : LoopPcs, of : SUBSET Capture, finished : BOOLEAN]
      /\ loop'.of # {} => loop'.pc = "batch"
      /\ loop.pc = "exited" => loop' = loop
      /\ loop'.finished => loop.finished \/ open = {}
      /\ loop.pc \in Closing => loop'.pc \in Closing
      /\ loop'.pc \in {"unmap", "exited"} => loop.pc \in {"unmap", "exited"} \/ flushed
  <2>1. CASE SeeError
    BY <2>1 DEF TypeOK, Rings, Channels, SeeError, return, Selecting, LoopPcs, Closing
  <2>2. CASE Quit \/ Signal
    BY <2>2 DEF TypeOK, Rings, Channels, Quit, Signal, LoopPcs, Closing
  <2>3. CASE Tick BY <2>3 DEF TypeOK, Rings, Channels, Tick, Selecting, LoopPcs, Closing
  <2>4. CASE Finish BY <2>4 DEF TypeOK, Rings, Channels, Finish, loopEnds, LoopPcs, Closing
  <2>5. CASE CloseWriter BY <2>5 DEF TypeOK, Rings, Channels, CloseWriter, LoopPcs, Closing
  <2>6. CASE Flushed BY <2>6 DEF TypeOK, Rings, Channels, Flushed, LoopPcs, Closing
  <2>7. QED BY <2>1, <2>2, <2>3, <2>4, <2>5, <2>6
<1>3. TypeOK' BY <1>1, <1>2 DEF TypeOK, sources, output
<1>4. Rings' BY <1>1, <1>2 DEF Rings, sources, Ended
<1>5. Channels' BY <1>1, <1>2 DEF Channels, sources, Ended
<1>6. Output' BY <1>1, <1>2 DEF TypeOK, Output, output, flushed
<1>7. QED BY <1>3, <1>4, <1>5, <1>6

LEMMA CloseSocketsStep == ASSUME RunInv, CloseSockets PROVE RunInv'
<1> USE DEF RunInv
<1>1. TypeOK' BY DEF TypeOK, CloseSockets, sources, output, LoopPcs
<1>2. Rings' BY DEF TypeOK, Rings, CloseSockets, runsEnded, Ended, sources
<1>3. Channels' BY DEF TypeOK, Channels, CloseSockets, Ended, sources
<1>4. Output' BY DEF TypeOK, Output, CloseSockets, Closing, output
<1>5. QED BY <1>1, <1>2, <1>3, <1>4

(***************************************************************************)
(* The output: Write of the loop, and the steps of the writer.             *)
(***************************************************************************)
LEMMA WriteStep == ASSUME RunInv, Write PROVE RunInv'
<1> USE DEF RunInv
<1>1. /\ UNCHANGED <<mapped, sources, open, writer, written>>
      /\ loop' \in [pc : LoopPcs, of : SUBSET Capture, finished : BOOLEAN]
      /\ loop'.of = {} /\ loop'.finished = loop.finished
      /\ loop.pc = "write" /\ loop'.pc \in {"select", "close"}
  BY DEF TypeOK, Rings, Write, return, LoopPcs
<1>2. \/ frames' = Append(frames, accepted + 1) /\ accepted' = accepted + 1
      \/ UNCHANGED <<frames, accepted>>
  BY DEF Write
<1>3. TypeOK'
  <2>1. frames \in Seq(Nat) /\ accepted + 1 \in Nat BY DEF TypeOK
  <2>2. Append(frames, accepted + 1) \in Seq(Nat) BY <2>1, AppendProperties
  <2>3. frames' \in Seq(Nat) /\ accepted' \in Nat BY <1>2, <2>1, <2>2 DEF TypeOK
  <2>4. QED BY <1>1, <2>3 DEF TypeOK, sources
<1>4. Rings' BY <1>1 DEF Rings, sources, Ended
<1>5. Channels' BY <1>1 DEF Channels, sources, Ended
<1>6. Output'
  <2>1. /\ Len(written') + Len(frames') = accepted'
        /\ \A i \in 1..Len(frames') : frames'[i] = Len(written') + i
    <3>1. CASE frames' = Append(frames, accepted + 1) /\ accepted' = accepted + 1
      <4>1. /\ Len(frames') = Len(frames) + 1
            /\ \A i \in 1..Len(frames) : frames'[i] = frames[i]
            /\ frames'[Len(frames) + 1] = accepted + 1
        <5>1. frames \in Seq(Nat) /\ accepted + 1 \in Nat BY DEF TypeOK
        <5>2. QED BY <3>1, <5>1, AppendProperties
      <4>2. Len(written) \in Nat /\ Len(frames) \in Nat BY LenProperties DEF TypeOK
      <4>3. accepted = Len(written) + Len(frames) BY DEF Output
      <4>4. ASSUME NEW i \in 1..Len(frames') PROVE frames'[i] = Len(written) + i
        <5>1. CASE i \in 1..Len(frames) BY <4>1, <5>1 DEF Output
        <5>2. CASE i = Len(frames) + 1 BY <3>1, <4>1, <4>2, <4>3, <5>2
        <5>3. QED BY <4>1, <4>2, <5>1, <5>2
      <4>5. QED BY <1>1, <3>1, <4>1, <4>2, <4>3, <4>4
    <3>2. CASE UNCHANGED <<frames, accepted>> BY <1>1, <3>2 DEF Output
    <3>3. QED BY <1>2, <3>1, <3>2
  <2>2. QED BY <1>1, <2>1 DEF Output, Closing
<1>7. QED BY <1>3, <1>4, <1>5, <1>6

LEMMA WriterWritesStep == ASSUME RunInv, WriterWrites PROVE RunInv'
<1> USE DEF RunInv
<1>1. frames \in Seq(Nat) /\ frames # <<>> /\ written \in Seq(Nat) BY DEF TypeOK, WriterWrites
<1>2. /\ Head(frames) \in Nat /\ Head(frames) = frames[1]
      /\ frames' \in Seq(Nat) /\ Len(frames') = Len(frames) - 1 /\ Len(frames) \in Nat
      /\ Len(frames) > 0
      /\ \A i \in 1..Len(frames') : frames'[i] = frames[i + 1]
  BY <1>1, HeadTailProperties, LenProperties, EmptySeq DEF WriterWrites
<1>3. /\ written' \in Seq(Nat) /\ Len(written') = Len(written) + 1 /\ Len(written) \in Nat
      /\ \A i \in 1..Len(written) : written'[i] = written[i]
      /\ written'[Len(written) + 1] = Head(frames)
  BY <1>1, <1>2, AppendProperties, LenProperties DEF WriterWrites
<1>4. UNCHANGED <<mapped, sources, open, loop, writer, accepted>> /\ writer = "write"
  BY DEF WriterWrites
<1>5. TypeOK' BY <1>2, <1>3, <1>4 DEF TypeOK, sources
<1>6. Rings' BY <1>4 DEF Rings, sources, Ended
<1>7. Channels' BY <1>4 DEF Channels, sources, Ended
<1>8. Output'
  <2>1. ASSUME NEW i \in 1..Len(written') PROVE written'[i] = i
    <3>1. CASE i \in 1..Len(written) BY <1>3, <3>1 DEF Output
    <3>2. CASE i = Len(written) + 1 BY <1>2, <1>3, <3>2 DEF Output
    <3>3. QED BY <1>3, <3>1, <3>2
  <2>2. ASSUME NEW i \in 1..Len(frames') PROVE frames'[i] = Len(written') + i
    <3>1. i + 1 \in 1..Len(frames) BY <1>2
    <3>2. frames'[i] = Len(written) + (i + 1) BY <1>2, <3>1 DEF Output
    <3>3. QED BY <1>3, <3>2
  <2>3. Len(written') + Len(frames') = accepted'
    BY <1>2, <1>3, <1>4 DEF Output
  <2>4. QED BY <1>4, <2>1, <2>2, <2>3 DEF Output
<1>9. QED BY <1>5, <1>6, <1>7, <1>8

LEMMA WriterStopsStep == ASSUME RunInv, WriterFails \/ WriterEnds PROVE RunInv'
<1> USE DEF RunInv
<1>1. /\ UNCHANGED <<cancelled, mapped, sources, open, loop, frames, written, accepted>>
      /\ writer' = "failed" \/ (writer' = "done" /\ frames = <<>> /\ loop.pc \in Closing)
  BY DEF WriterFails, WriterEnds, Closing
<1>2. TypeOK' BY <1>1 DEF TypeOK, sources
<1>3. Rings' BY <1>1 DEF Rings, sources, Ended
<1>4. Channels' BY <1>1 DEF Channels, sources, Ended
<1>5. Output' BY <1>1 DEF Output
<1>6. QED BY <1>2, <1>3, <1>4, <1>5

(***************************************************************************)
(* The theorems.                                                           *)
(***************************************************************************)
LEMMA Inductive == ASSUME RunInv, [RunNext]_rvars PROVE RunInv'
<1>1. CASE UNCHANGED rvars
  BY <1>1 DEF rvars, RunInv, TypeOK, Rings, Channels, Output, Ended
<1>2. CASE RunNext
  <2>1. \/ \E s \in Capture :
             BlockReady(s) \/ Offer(s) \/ CaptureFails(s) \/ CaptureStops(s)
        \/ \E p \in Probe : Send(p) \/ ReaderFails(p) \/ LastBatch(p) \/ ReaderStops(p)
        \/ TakeBatch \/ ReleaseBatch \/ (\E p \in Probe : TakeMessage(p)) \/ SeeClosed
        \/ SeeError \/ Quit \/ Tick \/ Finish \/ CloseWriter \/ Flushed \/ Signal
        \/ CloseSockets \/ Write \/ WriterWrites \/ WriterFails \/ WriterEnds
    BY <1>2 DEF RunNext, CaptureGoes, ReaderGoes, LoopGoes, WriterGoes
  <2>2. QED
    BY <2>1, CaptureStep, ReaderStep, TakeBatchStep, ReleaseBatchStep, TakeMessageStep,
       SeeClosedStep, RunStep, CloseSocketsStep, WriteStep, WriterWritesStep, WriterStopsStep
<1>3. QED BY <1>1, <1>2

(* The invariant of the run: a closed channel is empty, the rows taken are   *)
(* those written and those that wait, and the rings stay while a Run is left. *)
THEOREM RunSound == RunSpec => []RunInv
<1>1. RunInit => RunInv
  <2> SUFFICES ASSUME RunInit PROVE RunInv OBVIOUS
  <2>1. TypeOK BY DEF RunInit, TypeOK, LoopPcs
  <2>2. Rings /\ Channels BY DEF RunInit, Rings, Channels
  <2>3. Output BY DEF RunInit, Output
  <2>4. QED BY <2>1, <2>2, <2>3 DEF RunInv
<1>2. RunInv /\ [RunNext]_rvars => RunInv' BY Inductive
<1>3. QED BY <1>1, <1>2, PTL DEF RunSpec

(* No ring is unmapped under a Run or under the loop (Close, captureWG), the  *)
(* final report has all that was handed over, and the rows that Write took   *)
(* are written in order before the program exits (Run, streamWriter).        *)
THEOREM RunComplete == RunSpec => []Complete
<1>1. RunInv => Complete
  <2> SUFFICES ASSUME RunInv PROVE Complete OBVIOUS
  <2>1. RingsKept BY DEF RunInv, TypeOK, Rings, RingsKept, Ended
  <2>2. Drained BY DEF RunInv, TypeOK, Channels, Drained
  <2>3. RowsWritten
    <3>1. written = [i \in 1..Len(written) |-> i]
      <4>1. written \in Seq(Nat) BY DEF RunInv, TypeOK
      <4>2. written = [i \in 1..Len(written) |-> written[i]] BY <4>1, LenProperties
      <4>3. QED BY <4>2 DEF RunInv, Output
    <3>2. loop.pc = "exited" /\ writer # "failed" => Len(written) = accepted
      <4>1. Len(written) \in Nat BY LenProperties DEF RunInv, TypeOK
      <4>2. QED BY <4>1, EmptySeq DEF RunInv, TypeOK, Output
    <3>3. QED BY <3>1, <3>2 DEF RowsWritten
  <2>4. QED BY <2>1, <2>2, <2>3 DEF Complete
<1>2. QED BY <1>1, RunSound, PTL

(***************************************************************************)
(* The change log: the inductive invariant.                                 *)
(***************************************************************************)
Row == Nat \ {0}

LogType ==
  /\ file \in Seq(Row) \cup {NoFile} /\ backup \in Seq(Row) \cup {NoFile}
  /\ size \in Nat /\ rows \in Nat /\ torn \subseteq 1..rows
  /\ logger \in {"down", "write", "remove", "rename", "create"}

(* The backup is a file that was full, or it is gone. *)
Full ==
  /\ Len(content(file)) <= MaxSize /\ Len(content(backup)) \in {0, MaxSize}
  /\ logger = "write" => size = Len(content(file)) /\ file # NoFile

(* Between the calls of a rotation: what was full stays until it is the      *)
(* backup, so the file removed is never the last full one.                  *)
Rotation ==
  /\ logger \in {"remove", "rename"} => Len(content(file)) = MaxSize
  /\ logger = "rename" => content(backup) = <<>>
  /\ logger = "create" => content(file) = <<>> /\ Len(content(backup)) = MaxSize

LogInv == LogType /\ Full /\ Rotation /\ KeepsLatest

(***************************************************************************)
(* The two files as sequences.                                             *)
(***************************************************************************)
LEMMA Contents ==
  ASSUME LogType
  PROVE  /\ content(file) \in Seq(Row) /\ content(backup) \in Seq(Row)
         /\ file # NoFile => content(file) = file
         /\ backup # NoFile => content(backup) = backup
  BY EmptySeq DEF LogType, content

LEMMA EmptyFile == content(<<>>) = <<>> /\ content(NoFile) = <<>>
  BY DEF content, NoFile

LEMMA RowsAreFiles == ASSUME NEW s \in Seq(Row) PROVE content(s) = s
<1>1. CASE s = NoFile
  <2>1. Len(s) = 1 /\ s[1] = 0 BY <1>1 DEF NoFile
  <2>2. s[1] \in Row BY SMTT(30), <2>1, ElementOfSeq
  <2>3. QED BY <2>1, <2>2 DEF Row
<1>2. CASE s # NoFile BY <1>2 DEF content
<1>3. QED BY <1>1, <1>2

LEMMA Kept ==
  ASSUME LogType
  PROVE  /\ kept \in Seq(Row)
         /\ Len(content(backup)) \in Nat /\ Len(content(file)) \in Nat
         /\ Len(kept) = Len(content(backup)) + Len(content(file))
         /\ \A i \in 1..Len(content(backup)) : kept[i] = content(backup)[i]
         /\ \A i \in 1..Len(content(file)) :
              kept[Len(content(backup)) + i] = content(file)[i]
<1>1. content(file) \in Seq(Row) /\ content(backup) \in Seq(Row) BY Contents
<1>2. kept \in Seq(Row) /\ Len(kept) = Len(content(backup)) + Len(content(file))
  BY <1>1, ConcatProperties DEF kept
<1>3. Len(content(backup)) \in Nat /\ Len(content(file)) \in Nat BY <1>1, LenProperties
<1>4. ASSUME NEW i \in 1..Len(kept)
      PROVE  kept[i] = IF i <= Len(content(backup)) THEN content(backup)[i]
                       ELSE content(file)[i - Len(content(backup))]
  BY <1>1, <1>4, ConcatProperties DEF kept
<1>5. ASSUME NEW i \in 1..Len(content(backup)) PROVE kept[i] = content(backup)[i]
  BY <1>2, <1>3, <1>4
<1>6. ASSUME NEW i \in 1..Len(content(file))
      PROVE  kept[Len(content(backup)) + i] = content(file)[i]
  <2>1. Len(content(backup)) + i \in 1..Len(kept) BY <1>2, <1>3
  <2>2. QED BY <1>3, <1>4, <2>1
<1>7. QED BY <1>2, <1>3, <1>5, <1>6

LEMMA ConcatAppend ==
  ASSUME NEW b \in Seq(Row), NEW c \in Seq(Row), NEW r \in Row
  PROVE  b \o Append(c, r) = Append(b \o c, r)
<1>1. <<r>> \in Seq(Row) /\ b \o c \in Seq(Row) BY ConcatProperties
<1>2. Append(c, r) = c \o <<r>> /\ Append(b \o c, r) = (b \o c) \o <<r>>
  BY <1>1, AppendIsConcat
<1>3. QED BY <1>1, <1>2, ConcatAssociative

(* A step that keeps the files' rows and gives up at most the one under way. *)
LEMMA SameFiles ==
  ASSUME LogInv, LogType', kept' = kept,
         \/ rows' = rows /\ torn' = torn
         \/ rows' = rows + 1 /\ torn' = torn \cup {rows + 1}
  PROVE  KeepsLatest'
<1>1. PICK last \in 0..rows :
        /\ {kept[i] : i \in 1..Len(kept)} = ((last + 1)..rows) \ torn
        /\ last = 0 \/ Len(kept) >= MaxSize
  BY DEF LogInv, KeepsLatest
<1>2. ((last + 1)..rows') \ torn' = ((last + 1)..rows) \ torn
  BY DEF LogInv, LogType
<1>3. last \in 0..rows' BY DEF LogInv, LogType
<1>4. InOrder' BY DEF LogInv, KeepsLatest, InOrder
<1>5. {kept'[i] : i \in 1..Len(kept')} = ((last + 1)..rows') \ torn' BY <1>1, <1>2
<1>6. last = 0 \/ Len(kept') >= MaxSize BY <1>1
<1>7. QED BY <1>3, <1>4, <1>5, <1>6 DEF KeepsLatest

(***************************************************************************)
(* The steps.                                                              *)
(***************************************************************************)
LEMMA OpenStep == ASSUME LogInv, OpenLog PROVE LogInv'
<1> USE DEF LogInv
<1>1. content(file) \in Seq(Row) /\ Len(content(file)) \in Nat
  BY Contents, LenProperties
<1>2. content(file') = content(file) /\ content(backup') = content(backup)
  BY <1>1, RowsAreFiles DEF OpenLog
<1>3. LogType' BY <1>1 DEF LogType, OpenLog
<1>4. kept' = kept BY <1>2 DEF kept
<1>5. file' # NoFile
  <2>1. CASE file = NoFile
    <3>1. file' = <<>> BY <2>1, EmptyFile DEF OpenLog
    <3>2. <<>> # NoFile BY DEF NoFile
    <3>3. QED BY <3>1, <3>2
  <2>2. CASE file # NoFile BY <2>2, Contents DEF OpenLog
  <2>3. QED BY <2>1, <2>2
<1>6. Full' /\ Rotation' BY <1>2, <1>5 DEF Full, Rotation, OpenLog
<1>7. KeepsLatest' BY <1>3, <1>4, SameFiles DEF OpenLog
<1>8. QED BY <1>3, <1>6, <1>7

LEMMA WriteRowStep == ASSUME LogInv, WriteRow PROVE LogInv'
<1> USE LimitAssumption DEF LogInv
<1>1. file \in Seq(Row) /\ content(file) = file /\ content(backup) \in Seq(Row)
  BY Contents DEF LogType, Full, WriteRow
<1>2. rows \in Nat /\ rows + 1 \in Row BY DEF LogType, Row
<1>3. /\ file' = Append(file, rows + 1) /\ file' \in Seq(Row)
      /\ Len(file') = Len(file) + 1 /\ Len(file) \in Nat
  BY <1>1, <1>2, AppendProperties, LenProperties DEF WriteRow
<1>4. content(file') = file' /\ content(backup') = content(backup)
  BY <1>3, RowsAreFiles DEF WriteRow
<1>5. rows' = rows + 1 /\ torn' = torn /\ backup' = backup /\ logger = "write" /\ logger' = "write"
  BY DEF WriteRow
<1>6. LogType' BY <1>2, <1>3, <1>5 DEF LogType, WriteRow
<1>7. Full' /\ Rotation'
  <2>1. size = Len(file) /\ size' = size + 1 /\ (size = 0 \/ size + 1 <= MaxSize)
    BY <1>1 DEF Full, WriteRow
  <2>2. file' # NoFile
    <3>1. CASE Len(file) = 0 BY <1>1, <1>2, <1>3, <3>1, AppendProperties DEF NoFile, Row
    <3>2. CASE Len(file) # 0 BY <1>3, <3>2 DEF NoFile
    <3>3. QED BY <3>1, <3>2
  <2>3. QED BY <1>3, <1>4, <1>5, <2>1, <2>2 DEF Full, Rotation
<1>8. kept \in Seq(Row) /\ kept' = Append(kept, rows + 1)
  <2>1. PICK b \in Seq(Row) : b = content(backup) BY <1>1
  <2>2. PICK c \in Seq(Row) : c = file BY <1>1
  <2>3. PICK r \in Row : r = rows + 1 BY <1>1, <1>2, <1>3
  <2>4. b \o Append(c, r) = Append(b \o c, r) BY ConcatAppend
  <2>5. b \o c \in Seq(Row) OBVIOUS
  <2>6. kept = b \o c BY <1>1, <2>1, <2>2 DEF kept
  <2>7. kept' = b \o Append(c, r) BY <1>3, <1>4, <2>1, <2>2, <2>3 DEF kept
  <2>8. QED BY <2>3, <2>4, <2>5, <2>6, <2>7
<1>9. KeepsLatest'
  <2>1. /\ Len(kept') = Len(kept) + 1 /\ Len(kept) \in Nat
        /\ \A i \in 1..Len(kept) : kept'[i] = kept[i]
        /\ kept'[Len(kept) + 1] = rows + 1
    BY <1>2, <1>8, AppendProperties, LenProperties
  <2>2. PICK last \in 0..rows :
          /\ {kept[i] : i \in 1..Len(kept)} = ((last + 1)..rows) \ torn
          /\ last = 0 \/ Len(kept) >= MaxSize
    BY DEF KeepsLatest
  <2>3. \A i \in 1..Len(kept) : kept[i] \in 1..rows BY <2>2
  <2>4. InOrder'
    <3>1. SUFFICES ASSUME NEW i \in 1..Len(kept'), NEW j \in 1..Len(kept'), i < j
                   PROVE  kept'[i] < kept'[j]
      BY DEF InOrder
    <3>2. i \in 1..Len(kept) BY <2>1, <3>1
    <3>3. CASE j \in 1..Len(kept) BY <2>1, <3>1, <3>2, <3>3 DEF KeepsLatest, InOrder
    <3>4. CASE j = Len(kept) + 1 BY <1>2, <2>1, <2>3, <3>2, <3>4
    <3>5. QED BY <2>1, <3>3, <3>4
  <2>5. {kept'[i] : i \in 1..Len(kept')} = ((last + 1)..rows') \ torn'
    <3>1. {kept'[i] : i \in 1..Len(kept')} = {kept[i] : i \in 1..Len(kept)} \cup {rows + 1}
      BY <2>1
    <3>2. torn \subseteq 1..rows BY DEF LogType
    <3>3. ((last + 1)..(rows + 1)) \ torn = (((last + 1)..rows) \ torn) \cup {rows + 1}
      BY <1>2, <2>2, <3>2
    <3>4. QED BY <1>5, <2>2, <3>1, <3>3
  <2>6. last \in 0..rows' /\ (last = 0 \/ Len(kept') >= MaxSize) BY <1>2, <1>5, <2>1, <2>2
  <2>7. QED BY <2>4, <2>5, <2>6 DEF KeepsLatest
<1>10. QED BY <1>6, <1>7, <1>9

(* A row that could not be written, a kill, and the start of a rotation     *)
(* leave the files alone.                                                   *)
LEMMA StopStep == ASSUME LogInv, WriteFails \/ RotateFails \/ Kill \/ Rotate PROVE LogInv'
<1> USE LimitAssumption DEF LogInv
<1>1. /\ UNCHANGED <<file, backup, size, starts>>
      /\ \/ logger' = "down"
         \/ logger' = "remove" /\ size > 0 /\ size + 1 > MaxSize /\ logger = "write"
      /\ \/ rows' = rows /\ torn' = torn
         \/ rows' = rows + 1 /\ torn' = torn \cup {rows + 1}
  BY DEF WriteFails, RotateFails, Kill, Rotate
<1>2. LogType'
  <2>1. rows \in Nat /\ torn \subseteq 1..rows BY DEF LogType
  <2>2. CASE rows' = rows /\ torn' = torn BY <1>1, <2>1, <2>2 DEF LogType
  <2>3. CASE rows' = rows + 1 /\ torn' = torn \cup {rows + 1}
    <3>1. rows' \in Nat /\ torn' \subseteq 1..rows' BY <2>1, <2>3
    <3>2. QED BY <1>1, <3>1 DEF LogType
  <2>4. QED BY <1>1, <2>2, <2>3
<1>3. Full' BY <1>1 DEF Full
<1>4. Rotation' BY <1>1 DEF LogType, Full, Rotation
<1>5. kept' = kept BY <1>1 DEF kept
<1>6. QED BY <1>1, <1>2, <1>3, <1>4, <1>5, SameFiles

(* The old backup is removed: the log that is full is what is kept.         *)
LEMMA RemoveBackupStep == ASSUME LogInv, RemoveBackup PROVE LogInv'
<1> USE LimitAssumption DEF LogInv
<1>1. /\ UNCHANGED <<file, size, rows, torn, starts>> /\ backup' = NoFile
      /\ logger = "remove" /\ logger' = "rename"
  BY DEF RemoveBackup
<1>2. content(backup') = <<>> /\ Len(content(backup')) = 0 /\ content(file') = content(file)
  BY <1>1, EmptyFile
<1>3. LogType' BY <1>1 DEF LogType
<1>4. Full' /\ Rotation' BY <1>1, <1>2 DEF Full, Rotation
<1>5. Len(content(file)) = MaxSize BY <1>1 DEF Rotation
<1>6. /\ Len(kept') = Len(content(file))
      /\ \A i \in 1..Len(content(file)) : kept'[i] = content(file)[i]
  <2>1. kept' = <<>> \o content(file) BY <1>2 DEF kept
  <2>2. QED BY <2>1, Contents, ConcatEmptySeq
<1>7. KeepsLatest'
  <2> DEFINE n == Len(content(backup))
             c == content(file)
  <2>1. /\ kept \in Seq(Row) /\ n \in Nat /\ Len(c) \in Nat /\ Len(kept) = n + Len(c)
        /\ \A i \in 1..n : kept[i] = content(backup)[i]
        /\ \A i \in 1..Len(c) : kept[n + i] = c[i]
    BY Kept
  <2>2. /\ Len(kept') = Len(c)
        /\ \A i \in 1..Len(c) : kept'[i] = kept[n + i]
    BY <1>6, <2>1
  <2>3. PICK last \in 0..rows :
          /\ {kept[i] : i \in 1..Len(kept)} = ((last + 1)..rows) \ torn
          /\ last = 0 \/ Len(kept) >= MaxSize
    BY DEF KeepsLatest
  <2> HIDE DEF n, c
  <2>4. \A i, j \in 1..Len(kept) : i < j => kept[i] < kept[j] BY DEF KeepsLatest, InOrder
  <2>5. InOrder'
    <3>1. SUFFICES ASSUME NEW i \in 1..Len(kept'), NEW j \in 1..Len(kept'), i < j
                   PROVE  kept'[i] < kept'[j]
      BY DEF InOrder
    <3>2. n + i \in 1..Len(kept) /\ n + j \in 1..Len(kept) /\ n + i < n + j
      BY <2>1, <2>2, <3>1
    <3>3. QED BY <2>2, <2>4, <3>1, <3>2
  <2>6. rows \in Nat /\ MaxSize \in Nat BY DEF LogType
  <2>7. \E gone \in 0..rows : {kept'[i] : i \in 1..Len(kept')} = ((gone + 1)..rows) \ torn
    <3>1. CASE n = 0
      <4>1. {kept'[i] : i \in 1..Len(kept')} = {kept[i] : i \in 1..Len(kept)}
        BY <2>1, <2>2, <3>1
      <4>2. QED BY <2>3, <4>1
    <3>2. CASE n # 0
      <4>1. n \in 1..Len(kept) BY <2>1, <3>2
      <4>2. PICK gone \in (last + 1)..rows : gone = kept[n] BY <2>3, <4>1
      <4>3. ASSUME NEW r \in {kept'[i] : i \in 1..Len(kept')}
            PROVE  r \in ((gone + 1)..rows) \ torn
        <5>1. PICK i \in 1..Len(c) : r = kept[n + i] BY <2>2, <4>3
        <5>2. n + i \in 1..Len(kept) /\ n < n + i BY <2>1, <5>1
        <5>3. r > gone BY <2>4, <4>1, <4>2, <5>1, <5>2
        <5>4. r \in ((last + 1)..rows) \ torn BY <2>3, <5>1, <5>2
        <5>5. QED BY <2>3, <4>2, <5>3, <5>4
      <4>4. ASSUME NEW r \in ((gone + 1)..rows) \ torn
            PROVE  r \in {kept'[i] : i \in 1..Len(kept')}
        <5>1. r \in ((last + 1)..rows) \ torn /\ r > gone BY <2>3, <4>2, <4>4
        <5>2. PICK k \in 1..Len(kept) : r = kept[k] BY <2>3, <5>1
        <5>3. k > n
          <6>1. CASE k < n BY <2>4, <4>1, <4>2, <5>1, <5>2, <6>1
          <6>2. CASE k = n BY <4>2, <5>1, <5>2, <6>2
          <6>3. QED BY <2>1, <6>1, <6>2
        <5>4. k - n \in 1..Len(c) /\ n + (k - n) = k BY <2>1, <5>3
        <5>5. QED BY <2>2, <5>2, <5>4
      <4>5. gone \in 0..rows BY <2>3
      <4>6. QED BY <4>3, <4>4, <4>5
    <3>3. QED BY <3>1, <3>2
  <2>8. Len(kept') >= MaxSize BY <1>5, <2>2, <2>6 DEF c
  <2>9. QED BY <1>1, <2>5, <2>7, <2>8 DEF KeepsLatest
<1>8. QED BY <1>3, <1>4, <1>7

LEMMA RenameStep == ASSUME LogInv, Rename PROVE LogInv'
<1> USE LimitAssumption DEF LogInv
<1>1. /\ UNCHANGED <<size, rows, torn, starts>> /\ backup' = file /\ file' = NoFile
      /\ logger = "rename" /\ logger' = "create"
  BY DEF Rename
<1>2. LogType' BY <1>1 DEF LogType
<1>3. /\ content(backup) = <<>> /\ Len(content(file)) = MaxSize
      /\ content(backup') = content(file) /\ content(file') = <<>>
  BY <1>1, EmptyFile DEF Rotation
<1>4. Full' /\ Rotation' BY <1>1, <1>3 DEF Full, Rotation
<1>5. kept' = kept
  BY <1>3, Contents, ConcatEmptySeq DEF kept
<1>6. QED BY <1>1, <1>2, <1>4, <1>5, SameFiles

LEMMA CreateStep == ASSUME LogInv, Create PROVE LogInv'
<1> USE LimitAssumption DEF LogInv
<1>1. /\ UNCHANGED <<backup, rows, torn, starts>> /\ file' = <<>> /\ size' = 0
      /\ logger = "create" /\ logger' = "write" /\ file = NoFile
  BY DEF Create
<1>2. LogType' BY <1>1 DEF LogType
<1>3. content(file') = content(file) /\ Len(content(file')) = 0 /\ <<>> # NoFile
  BY <1>1, EmptyFile DEF NoFile
<1>4. Full' /\ Rotation' BY <1>1, <1>3 DEF Full, Rotation
<1>5. kept' = kept BY <1>1, <1>3 DEF kept
<1>6. QED BY <1>1, <1>2, <1>4, <1>5, SameFiles

LEMMA InitHolds == ASSUME LogInit PROVE LogInv
<1> USE LimitAssumption
<1>1. LogType BY DEF LogInit, LogType
<1>2. content(file) = <<>> /\ content(backup) = <<>> /\ Len(content(backup)) = 0
  BY EmptyFile DEF LogInit
<1>3. Full /\ Rotation BY <1>2 DEF LogInit, Full, Rotation
<1>4. Len(kept) = 0
  <2>1. kept = <<>> \o <<>> BY <1>2 DEF kept
  <2>2. QED BY <2>1
<1>5. InOrder BY <1>4 DEF InOrder
<1>6. {kept[i] : i \in 1..Len(kept)} = ((0 + 1)..rows) \ torn BY <1>4 DEF LogInit
<1>7. KeepsLatest BY <1>5, <1>6 DEF KeepsLatest, LogInit
<1>8. QED BY <1>1, <1>3, <1>7 DEF LogInv

(***************************************************************************)
(* The theorem.                                                            *)
(***************************************************************************)

(* The log and its backup are the last rows written, in order, without a gap  *)
(* and within the limit, whichever call of a rotation fails and wherever the *)
(* process is killed, over any number of starts (rotate, openChangeLog).     *)
THEOREM LogSound == LogSpec => []LogKept
<1>1. LogInit => LogInv BY InitHolds
<1>2. LogInv /\ [LogNext]_lvars => LogInv'
  <2> SUFFICES ASSUME LogInv, [LogNext]_lvars PROVE LogInv' OBVIOUS
  <2>1. CASE UNCHANGED lvars
    <3>1. kept' = kept BY <2>1 DEF lvars, kept
    <3>2. LogType' /\ Full' /\ Rotation' BY <2>1 DEF lvars, LogInv, LogType, Full, Rotation
    <3>3. rows' = rows /\ torn' = torn BY <2>1 DEF lvars
    <3>4. QED BY <3>1, <3>2, <3>3, SameFiles DEF LogInv
  <2>2. CASE LogNext
    BY <2>2, OpenStep, WriteRowStep, StopStep, RemoveBackupStep, RenameStep, CreateStep
       DEF LogNext
  <2>3. QED BY <2>1, <2>2
<1>3. LogInv => LogKept
  <2> SUFFICES ASSUME LogInv PROVE LogKept OBVIOUS
  <2>1. Len(content(backup)) <= MaxSize BY LimitAssumption DEF LogInv, Full
  <2>2. QED BY <2>1 DEF LogInv, Full, LogKept, SizeKept
<1>4. QED BY <1>1, <1>2, <1>3, PTL DEF LogSpec
==============================================================================
