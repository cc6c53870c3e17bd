------------------------------ MODULE HostProofs ------------------------------
(***************************************************************************)
(* Theorems about the probes on the host, and of what is shown of it: the    *)
(* OpenSSL probe, for any number of threads, SSLs, BIOs, descriptors, names  *)
(* and sockets; the first bytes of sockets, for any number of sockets,        *)
(* budget, chunk size and sizes of the ring, the channel and the table of     *)
(* streams; the trends of rows, for any number of rows, size of rings and of  *)
(* the store; the highlight of the screen, for any tables; the rates of       *)
(* processes; and the frames of a recording.                                 *)
(***************************************************************************)
EXTENDS Host, Sums, SequenceTheorems

(***************************************************************************)
(* The inductive invariant of the OpenSSL probe.                           *)
(***************************************************************************)
FdOrNone == Fds \cup {T!NoFd}
NameOrNone == Names \cup {T!NoName}
SSLRecords == [used : BOOLEAN, fd : FdOrNone, custom : Nat, name : NameOrNone]
StateRecords == [known : BOOLEAN, fd : FdOrNone, hostname : NameOrNone]
SetFdCalls == [in : {"set_fd"}, ssl : SSLs, fd : Fds]
NewSocketCalls == [in : {"new_socket"}, ssl : {"none"}, fd : Fds]
CtrlCalls == [in : {"ctrl"}, ssl : SSLs, name : Names]
OtherCalls == [in : {"servername", "connect"}, ssl : SSLs]
LibraryCalls == SetFdCalls \cup NewSocketCalls \cup CtrlCalls \cup OtherCalls \cup {T!Outside}
Connects == [ssl : SSLs \cup {"none"}, emitted : BOOLEAN]

TLSType ==
  /\ T_socket \in [Fds -> Nat] /\ T_opened \in Nat
  /\ bio \in [BIOs -> FdOrNone] /\ bio_fds \in [BIOs -> FdOrNone]
  /\ ssl \in [SSLs -> SSLRecords] /\ ssl_states \in [SSLs -> StateRecords]
  /\ thread \in [Threads -> LibraryCalls]
  /\ T_calls \in [Threads -> LibraryCalls \cup {T!NoCall}]
  /\ bio_calls \in [Threads -> FdOrNone]
  /\ active_connects \in [Threads -> Connects]

(* What a program remembered on entry is the call its thread is in. *)
Remembered ==
  \A t \in Threads :
    /\ thread[t].in \in {"set_fd", "ctrl", "servername"} => T_calls[t] = thread[t]
    /\ thread[t].in = "new_socket" => bio_calls[t] = thread[t].fd
    /\ thread[t].in = "connect" => active_connects[t].ssl = thread[t].ssl

(* The maps have nothing or what the library has: an entry goes with its     *)
(* object, so none is left for the next object at that address.              *)
Agrees ==
  /\ \A s \in SSLs : /\ ssl_states[s].hostname \in {T!NoName, ssl[s].name}
                     /\ ssl_states[s].fd \in {T!NoFd, ssl[s].fd}
  /\ \A b \in BIOs : bio_fds[b] \in {T!NoFd, bio[b]}

TLSInv == TLSType /\ Remembered /\ Agrees /\ EventsAreRight

(***************************************************************************)
(* Events.                                                                 *)
(***************************************************************************)

(* A step that sends an event with the name and the socket in the state. *)
LEMMA EmitIsRight ==
  ASSUME TLSInv, NEW s \in SSLs, T!emit(s, ssl_states[s])
  PROVE  EventsAreRight'
<1> USE DEF TLSInv
<1>1. CASE T!emits(ssl_states[s])
  <2>1. ssl_states[s].fd \in Fds /\ ssl[s].fd = ssl_states[s].fd
        /\ ssl_states[s].hostname = ssl[s].name
    BY <1>1 DEF TLSType, Agrees, StateRecords, FdOrNone, T!emits
  <2>2. T!talks(s) = T_socket[ssl_states[s].fd] BY <2>1 DEF T!talks
  <2>3. event' = [said |-> <<T_socket[ssl_states[s].fd], ssl_states[s].hostname>>,
                  is |-> <<T!talks(s), ssl[s].name>>]
    BY <1>1 DEF T!emit, T!emit_sock
  <2>4. QED BY <2>1, <2>2, <2>3 DEF EventsAreRight, T!EventsAreRight
<1>2. CASE ~T!emits(ssl_states[s])
  BY <1>2 DEF T!emit, EventsAreRight, T!EventsAreRight
<1>3. QED BY <1>1, <1>2

LEMMA EventKept == ASSUME EventsAreRight, event' = event PROVE EventsAreRight'
  BY DEF EventsAreRight, T!EventsAreRight

(***************************************************************************)
(* Objects of the program.                                                 *)
(***************************************************************************)
LEMMA ObjectStep ==
  ASSUME TLSInv,
         \/ \E f \in Fds : T!Open(f) \/ T!Close(f)
         \/ \E s \in SSLs : T!SSL_new(s) \/ T!SetCustom(s)
         \/ \E b \in BIOs : T!bio_free_enter(b)
         \/ T!Evict
  PROVE  TLSInv'
<1> USE DEF TLSInv
<1>1. event' = event
  BY DEF T!Open, T!Close, T!SSL_new, T!SetCustom, T!bio_free_enter, T!Evict
<1>2. CASE \E f \in Fds : T!Open(f) \/ T!Close(f)
  <2>1. /\ T_socket' \in [Fds -> Nat] /\ T_opened' \in Nat
        /\ UNCHANGED <<bio, ssl, thread, T!maps>>
    BY <1>2 DEF TLSType, T!Open, T!Close
  <2>2. TLSType' BY <2>1 DEF TLSType, T!maps
  <2>3. Remembered' /\ Agrees' BY <2>1 DEF Remembered, Agrees, T!maps
  <2>4. QED BY <1>1, <2>2, <2>3, EventKept
<1>3. CASE \E s \in SSLs : T!SSL_new(s) \/ T!SetCustom(s)
  <2>1. PICK s \in SSLs : T!SSL_new(s) \/ T!SetCustom(s) BY <1>3
  <2>2. /\ ssl' \in [SSLs -> SSLRecords]
        /\ \A q \in SSLs : ssl'[q].name = ssl[q].name /\ ssl'[q].fd = ssl[q].fd
    <3>1. CASE T!SSL_new(s) BY <3>1 DEF TLSType, SSLRecords, T!SSL_new
    <3>2. CASE T!SetCustom(s) BY <3>2 DEF TLSType, SSLRecords, T!SetCustom
    <3>3. QED BY <2>1, <3>1, <3>2
  <2>3. UNCHANGED <<T!world, bio, thread, T!maps>> BY <2>1 DEF T!SSL_new, T!SetCustom
  <2>4. TLSType' BY <2>2, <2>3 DEF TLSType, T!maps, T!world
  <2>5. Remembered' BY <2>3 DEF Remembered, T!maps
  <2>6. Agrees' BY <2>2, <2>3 DEF Agrees, T!maps
  <2>7. QED BY <1>1, <2>4, <2>5, <2>6, EventKept
<1>4. CASE \E b \in BIOs : T!bio_free_enter(b)
  <2>1. PICK b \in BIOs : T!bio_free_enter(b) BY <1>4
  <2>2. TLSType' BY <2>1 DEF TLSType, FdOrNone, T!bio_free_enter, T!world
  <2>3. Remembered' BY <2>1 DEF Remembered, T!bio_free_enter
  <2>4. Agrees' BY <2>1 DEF TLSType, Agrees, T!bio_free_enter
  <2>5. QED BY <1>1, <2>2, <2>3, <2>4, EventKept
<1>5. CASE T!Evict
  <2>1. /\ UNCHANGED <<T!world, bio, ssl, thread, T_calls, bio_calls, active_connects>>
        /\ \/ \E s \in SSLs : /\ ssl_states' = [ssl_states EXCEPT ![s] = T!NoState]
                              /\ UNCHANGED bio_fds
           \/ \E b \in BIOs : /\ bio_fds' = [bio_fds EXCEPT ![b] = T!NoFd]
                              /\ UNCHANGED ssl_states
    BY <1>5 DEF T!Evict, T!forget
  <2>2. T!NoState \in StateRecords /\ T!NoState.fd = T!NoFd /\ T!NoState.hostname = T!NoName
    BY DEF T!NoState, StateRecords, FdOrNone, NameOrNone
  <2>3. TLSType' BY <2>1, <2>2 DEF TLSType, FdOrNone, T!world
  <2>4. Remembered' BY <2>1 DEF Remembered
  <2>5. Agrees' BY <2>1, <2>2 DEF TLSType, Agrees
  <2>6. QED BY <1>1, <2>3, <2>4, <2>5, EventKept
<1>6. QED BY <1>2, <1>3, <1>4, <1>5

(***************************************************************************)
(* Entries of library functions.                                           *)
(***************************************************************************)
LEMMA CallTypes ==
  /\ \A c \in SetFdCalls : c.in = "set_fd" /\ c.ssl \in SSLs /\ c.fd \in Fds
  /\ \A c \in NewSocketCalls : c.in = "new_socket" /\ c.fd \in Fds
  /\ \A c \in CtrlCalls : c.in = "ctrl" /\ c.ssl \in SSLs /\ c.name \in Names
  /\ \A c \in OtherCalls : c.in \in {"servername", "connect"} /\ c.ssl \in SSLs
  /\ T!Outside.in = "none" /\ T!NoCall.in = "none"
  BY DEF SetFdCalls, NewSocketCalls, CtrlCalls, OtherCalls, T!Outside, T!NoCall

LEMMA CallOf ==
  ASSUME NEW c \in LibraryCalls
  PROVE  /\ c.in = "set_fd" => c \in SetFdCalls
         /\ c.in = "new_socket" => c \in NewSocketCalls
         /\ c.in = "ctrl" => c \in CtrlCalls
         /\ c.in \in {"servername", "connect"} => c \in OtherCalls
  BY CallTypes DEF LibraryCalls

LEMMA EnterStep ==
  ASSUME TLSInv, NEW t \in Threads, NEW call \in SetFdCalls \cup CtrlCalls \cup OtherCalls,
         thread' = [thread EXCEPT ![t] = call],
         call.in # "connect" => T_calls' = [T_calls EXCEPT ![t] = call] /\ UNCHANGED active_connects,
         call.in = "connect" =>
           /\ active_connects' = [active_connects EXCEPT ![t] = [ssl |-> call.ssl, emitted |-> FALSE]]
           /\ UNCHANGED T_calls,
         UNCHANGED <<T!world, bio, ssl, bio_calls, ssl_states, bio_fds>>
  PROVE  TLSType' /\ Remembered' /\ Agrees'
<1> USE DEF TLSInv
<1>1. call \in LibraryCalls /\ call.in \in {"set_fd", "ctrl", "servername", "connect"}
  BY CallTypes DEF LibraryCalls
<1>2. call.in = "connect" => [ssl |-> call.ssl, emitted |-> FALSE] \in Connects
  BY CallTypes DEF Connects
<1>3. thread' \in [Threads -> LibraryCalls] BY <1>1 DEF TLSType
<1>4. /\ T_calls' \in [Threads -> LibraryCalls \cup {T!NoCall}]
      /\ active_connects' \in [Threads -> Connects]
  BY <1>1, <1>2 DEF TLSType
<1>5. TLSType' BY <1>3, <1>4 DEF TLSType, T!world
<1>6. Remembered' BY <1>1 DEF TLSType, Remembered
<1>7. Agrees' BY DEF Agrees
<1>8. QED BY <1>5, <1>6, <1>7

LEMMA EntryStep ==
  ASSUME TLSInv, NEW t \in Threads, NEW s \in SSLs,
         \/ \E f \in Fds : T!set_fd_enter(t, s, f)
         \/ \E name \in Names : T!ctrl_enter(t, s, name)
         \/ T!get_servername_enter(t, s)
         \/ T!connect_enter(t, s)
  PROVE  TLSInv'
<1> USE DEF TLSInv
<1>1. CASE \E f \in Fds : T!set_fd_enter(t, s, f)
  <2>1. PICK f \in Fds : T!set_fd_enter(t, s, f) BY <1>1
  <2>2. PICK call \in SetFdCalls : call = [in |-> "set_fd", ssl |-> s, fd |-> f]
    BY DEF SetFdCalls
  <2>3. /\ thread' = [thread EXCEPT ![t] = call] /\ T_calls' = [T_calls EXCEPT ![t] = call]
        /\ UNCHANGED <<T!world, bio, ssl, bio_calls, active_connects, ssl_states, bio_fds, event>>
    BY <2>1, <2>2 DEF T!set_fd_enter, T!Enter, T!remember
  <2>4. QED BY <2>2, <2>3, EnterStep, EventKept, CallTypes
<1>2. CASE \E name \in Names : T!ctrl_enter(t, s, name)
  <2>1. PICK name \in Names : T!ctrl_enter(t, s, name) BY <1>2
  <2>2. PICK call \in CtrlCalls : call = [in |-> "ctrl", ssl |-> s, name |-> name]
    BY DEF CtrlCalls
  <2>3. /\ thread' = [thread EXCEPT ![t] = call] /\ T_calls' = [T_calls EXCEPT ![t] = call]
        /\ UNCHANGED <<T!world, bio, ssl, bio_calls, active_connects, ssl_states, bio_fds, event>>
    BY <2>1, <2>2 DEF T!ctrl_enter, T!Enter, T!remember
  <2>4. QED BY <2>2, <2>3, EnterStep, EventKept, CallTypes
<1>3. CASE T!get_servername_enter(t, s)
  <2>1. PICK call \in OtherCalls : call = [in |-> "servername", ssl |-> s]
    BY DEF OtherCalls
  <2>2. /\ thread' = [thread EXCEPT ![t] = call] /\ T_calls' = [T_calls EXCEPT ![t] = call]
        /\ UNCHANGED <<T!world, bio, ssl, bio_calls, active_connects, ssl_states, bio_fds, event>>
    BY <1>3, <2>1 DEF T!get_servername_enter, T!Enter, T!remember
  <2>3. QED BY <2>1, <2>2, EnterStep, EventKept
<1>4. CASE T!connect_enter(t, s)
  <2>1. PICK call \in OtherCalls : call = [in |-> "connect", ssl |-> s]
    BY DEF OtherCalls
  <2>2. /\ thread' = [thread EXCEPT ![t] = call]
        /\ active_connects' = [active_connects EXCEPT ![t] = [ssl |-> call.ssl, emitted |-> FALSE]]
        /\ UNCHANGED <<T!world, bio, ssl, T_calls, bio_calls, ssl_states, bio_fds>>
        /\ T!emit(s, ssl_states[s])
    BY <1>4, <2>1 DEF T!connect_enter, T!Enter
  <2>3. TLSType' /\ Remembered' /\ Agrees' BY <2>1, <2>2, EnterStep
  <2>4. QED BY <2>2, <2>3, EmitIsRight
<1>5. QED BY <1>1, <1>2, <1>3, <1>4

LEMMA NewSocketStep ==
  ASSUME TLSInv, NEW t \in Threads,
         \/ \E f \in Fds : T!bio_new_socket_enter(t, f)
         \/ \E b \in BIOs : T!bio_new_socket_return(t, b)
  PROVE  TLSInv'
<1> USE DEF TLSInv
<1>1. CASE \E f \in Fds : T!bio_new_socket_enter(t, f)
  <2>1. PICK f \in Fds : T!bio_new_socket_enter(t, f) BY <1>1
  <2>2. PICK call \in NewSocketCalls : call = [in |-> "new_socket", ssl |-> "none", fd |-> f]
    BY DEF NewSocketCalls
  <2>3. /\ thread' = [thread EXCEPT ![t] = call] /\ bio_calls' = [bio_calls EXCEPT ![t] = call.fd]
        /\ UNCHANGED <<T!world, bio, ssl, T_calls, active_connects, ssl_states, bio_fds, event>>
    BY <2>1, <2>2 DEF T!bio_new_socket_enter
  <2>4. call \in LibraryCalls /\ call.in = "new_socket" /\ call.fd \in FdOrNone
    BY <2>2, CallTypes DEF LibraryCalls, FdOrNone
  <2>5. TLSType' BY <2>3, <2>4 DEF TLSType, T!world
  <2>6. Remembered' BY <2>3, <2>4 DEF TLSType, Remembered
  <2>7. Agrees' BY <2>3 DEF Agrees
  <2>8. QED BY <2>3, <2>5, <2>6, <2>7, EventKept
<1>2. CASE \E b \in BIOs : T!bio_new_socket_return(t, b)
  <2>1. PICK b \in BIOs : T!bio_new_socket_return(t, b) BY <1>2
  <2>2. thread[t].in = "new_socket" /\ thread[t].fd \in Fds /\ bio_calls[t] = thread[t].fd
    BY <2>1, CallOf, CallTypes DEF TLSType, Remembered, T!bio_new_socket_return
  <2>3. /\ bio' = [bio EXCEPT ![b] = thread[t].fd]
        /\ bio_fds' = bio_fds \/ bio_fds' = [bio_fds EXCEPT ![b] = thread[t].fd]
        /\ bio_fds[b] = T!NoFd \/ bio[b] = T!NoFd
        /\ bio[b] = T!NoFd
        /\ bio_calls' = [bio_calls EXCEPT ![t] = T!NoFd]
        /\ thread' = [thread EXCEPT ![t] = T!Outside]
        /\ UNCHANGED <<T!world, ssl, T_calls, active_connects, ssl_states, event>>
    BY <2>1, <2>2 DEF T!bio_new_socket_return
  <2>4. T!Outside \in LibraryCalls /\ T!Outside.in = "none" BY CallTypes DEF LibraryCalls
  <2>5. TLSType' BY <2>2, <2>3, <2>4 DEF TLSType, FdOrNone, T!world
  <2>6. Remembered' BY <2>3, <2>4 DEF TLSType, Remembered
  <2>7. Agrees' BY <2>2, <2>3 DEF TLSType, Agrees
  <2>8. QED BY <2>3, <2>5, <2>6, <2>7, EventKept
<1>3. QED BY <1>1, <1>2

(***************************************************************************)
(* Returns, and what is done within one call.                              *)
(***************************************************************************)
LEMMA Leaves ==
  ASSUME TLSInv, NEW t \in Threads,
         thread' = [thread EXCEPT ![t] = T!Outside],
         T_calls' = [T_calls EXCEPT ![t] = T!NoCall] \/ T_calls' = T_calls,
         active_connects' = [active_connects EXCEPT ![t] = T!NoConnect]
           \/ active_connects' = active_connects,
         ssl' \in [SSLs -> SSLRecords], ssl_states' \in [SSLs -> StateRecords],
         UNCHANGED <<T!world, bio, bio_calls, bio_fds>>
  PROVE  TLSType' /\ Remembered'
<1> USE DEF TLSInv
<1>1. T!Outside \in LibraryCalls /\ T!Outside.in = "none" BY CallTypes DEF LibraryCalls
<1>2. T!NoConnect \in Connects BY DEF T!NoConnect, Connects
<1>3. TLSType' BY <1>1, <1>2 DEF TLSType, T!world
<1>4. Remembered' BY <1>1 DEF TLSType, Remembered
<1>5. QED BY <1>3, <1>4

LEMMA SetFdReturnStep == ASSUME TLSInv, NEW t \in Threads, T!set_fd_return(t) PROVE TLSInv'
<1> USE DEF TLSInv
<1>1. /\ thread[t].in = "set_fd" /\ T_calls[t] = thread[t]
      /\ thread[t].ssl \in SSLs /\ thread[t].fd \in Fds
  BY CallOf, CallTypes DEF TLSType, Remembered, T!set_fd_return
<1> DEFINE s == thread[t].ssl
<1>2. PICK ok \in BOOLEAN :
        /\ ssl' = IF ok THEN [ssl EXCEPT ![s].fd = thread[t].fd] ELSE ssl
        /\ ssl_states' = IF ok /\ T_calls[t] # T!NoCall
                         THEN [ssl_states EXCEPT ![T_calls[t].ssl] =
                                 [T!get_state(T_calls[t].ssl) EXCEPT !.fd = T_calls[t].fd]]
                         ELSE ssl_states
  BY DEF T!set_fd_return
<1>3. T_calls[t] # T!NoCall BY <1>1, CallTypes
<1>4. CASE ok
  <2>1. ssl' = [ssl EXCEPT ![s].fd = thread[t].fd] BY <1>2, <1>4
  <2>2. ssl_states' = [ssl_states EXCEPT ![s] = [T!get_state(s) EXCEPT !.fd = thread[t].fd]]
    BY <1>1, <1>2, <1>3, <1>4
  <2>3. /\ [T!get_state(s) EXCEPT !.fd = thread[t].fd] \in StateRecords
        /\ [T!get_state(s) EXCEPT !.fd = thread[t].fd].fd = thread[t].fd
        /\ [T!get_state(s) EXCEPT !.fd = thread[t].fd].hostname = ssl_states[s].hostname
    BY <1>1 DEF TLSType, StateRecords, FdOrNone, T!get_state
  <2>4. ssl' \in [SSLs -> SSLRecords] /\ ssl_states' \in [SSLs -> StateRecords]
    BY <1>1, <2>1, <2>2, <2>3 DEF TLSType, SSLRecords, FdOrNone
  <2>5. TLSType' /\ Remembered' BY <2>4, Leaves DEF T!set_fd_return
  <2>6. \A q \in SSLs : /\ q # s => ssl'[q] = ssl[q] /\ ssl_states'[q] = ssl_states[q]
                        /\ q = s => ssl'[q].name = ssl[q].name /\ ssl'[q].fd = thread[t].fd
    BY <1>1, <2>1, <2>2 DEF TLSType, SSLRecords
  <2>7. Agrees' BY <1>1, <2>2, <2>3, <2>6 DEF TLSType, Agrees, T!set_fd_return
  <2>8. QED BY <2>5, <2>7, EventKept DEF T!set_fd_return
<1>5. CASE ~ok
  <2>1. ssl' = ssl /\ ssl_states' = ssl_states BY <1>2, <1>5
  <2>2. TLSType' /\ Remembered' BY <2>1, Leaves DEF TLSType, T!set_fd_return
  <2>3. Agrees' BY <2>1 DEF Agrees, T!set_fd_return
  <2>4. QED BY <2>2, <2>3, EventKept DEF T!set_fd_return
<1>6. QED BY <1>4, <1>5

LEMMA CtrlReturnStep == ASSUME TLSInv, NEW t \in Threads, T!ctrl_return(t) PROVE TLSInv'
<1> USE DEF TLSInv
<1>1. /\ thread[t].in = "ctrl" /\ T_calls[t] = thread[t]
      /\ thread[t].ssl \in SSLs /\ thread[t].name \in Names
  BY CallOf, CallTypes DEF TLSType, Remembered, T!ctrl_return
<1> DEFINE s == thread[t].ssl
<1>2. PICK ok \in BOOLEAN :
        /\ ssl' = IF ok THEN [ssl EXCEPT ![s].name = thread[t].name] ELSE ssl
        /\ ssl_states' = IF ok /\ T_calls[t] # T!NoCall
                         THEN [ssl_states EXCEPT ![T_calls[t].ssl] =
                                 [T!get_state(T_calls[t].ssl) EXCEPT !.hostname = T_calls[t].name]]
                         ELSE ssl_states
  BY DEF T!ctrl_return
<1>3. T_calls[t] # T!NoCall BY <1>1, CallTypes
<1>4. CASE ok
  <2>1. ssl' = [ssl EXCEPT ![s].name = thread[t].name] BY <1>2, <1>4
  <2>2. ssl_states' = [ssl_states EXCEPT ![s] = [T!get_state(s) EXCEPT !.hostname = thread[t].name]]
    BY <1>1, <1>2, <1>3, <1>4
  <2>3. /\ [T!get_state(s) EXCEPT !.hostname = thread[t].name] \in StateRecords
        /\ [T!get_state(s) EXCEPT !.hostname = thread[t].name].hostname = thread[t].name
        /\ [T!get_state(s) EXCEPT !.hostname = thread[t].name].fd = ssl_states[s].fd
    BY <1>1 DEF TLSType, StateRecords, NameOrNone, T!get_state
  <2>4. ssl' \in [SSLs -> SSLRecords] /\ ssl_states' \in [SSLs -> StateRecords]
    BY <1>1, <2>1, <2>2, <2>3 DEF TLSType, SSLRecords, NameOrNone
  <2>5. TLSType' /\ Remembered' BY <2>4, Leaves DEF T!ctrl_return
  <2>6. \A q \in SSLs : /\ q # s => ssl'[q] = ssl[q] /\ ssl_states'[q] = ssl_states[q]
                        /\ q = s => ssl'[q].fd = ssl[q].fd /\ ssl'[q].name = thread[t].name
    BY <1>1, <2>1, <2>2 DEF TLSType, SSLRecords
  <2>7. Agrees' BY <1>1, <2>2, <2>3, <2>6 DEF TLSType, Agrees, T!ctrl_return
  <2>8. QED BY <2>5, <2>7, EventKept DEF T!ctrl_return
<1>5. CASE ~ok
  <2>1. ssl' = ssl /\ ssl_states' = ssl_states BY <1>2, <1>5
  <2>2. TLSType' /\ Remembered' BY <2>1, Leaves DEF TLSType, T!ctrl_return
  <2>3. Agrees' BY <2>1 DEF Agrees, T!ctrl_return
  <2>4. QED BY <2>2, <2>3, EventKept DEF T!ctrl_return
<1>6. QED BY <1>4, <1>5

LEMMA ServernameReturnStep ==
  ASSUME TLSInv, NEW t \in Threads, T!get_servername_return(t) PROVE TLSInv'
<1> USE DEF TLSInv
<1>1. thread[t].in = "servername" /\ T_calls[t] = thread[t] /\ thread[t].ssl \in SSLs
  BY CallOf, CallTypes DEF TLSType, Remembered, T!get_servername_return
<1>2. PICK s \in SSLs : s = thread[t].ssl BY <1>1
<1>3. PICK name \in NameOrNone :
        /\ ssl[s].name # T!NoName => name = ssl[s].name
        /\ ssl' = [ssl EXCEPT ![s].name = name]
        /\ IF T_calls[t] # T!NoCall /\ name # T!NoName
           THEN LET state == [T!get_state(s) EXCEPT !.hostname = name] IN
                /\ ssl_states' = [ssl_states EXCEPT ![s] = state]
                /\ IF T!emits(state)
                   THEN event' = [said |-> <<T_socket[state.fd], name>>,
                                  is |-> <<T!talks(s), name>>]
                   ELSE UNCHANGED event
           ELSE UNCHANGED <<ssl_states, event>>
  BY <1>2 DEF NameOrNone, T!get_servername_return
<1>4. T_calls[t] # T!NoCall BY <1>1, CallTypes
<1>5. ssl' \in [SSLs -> SSLRecords] BY <1>3 DEF TLSType, SSLRecords
<1>6. \A q \in SSLs : /\ q # s => ssl'[q] = ssl[q]
                      /\ q = s => ssl'[q].fd = ssl[q].fd /\ ssl'[q].name = name
  BY <1>3 DEF TLSType, SSLRecords
<1>7. CASE name # T!NoName
  <2>1. PICK state \in StateRecords : state = [T!get_state(s) EXCEPT !.hostname = name]
    BY DEF TLSType, StateRecords, T!get_state
  <2>2. state.hostname = name /\ state.fd = ssl_states[s].fd
    BY <2>1 DEF TLSType, StateRecords, T!get_state
  <2>3. /\ ssl_states' = [ssl_states EXCEPT ![s] = state]
        /\ IF T!emits(state)
           THEN event' = [said |-> <<T_socket[state.fd], name>>, is |-> <<T!talks(s), name>>]
           ELSE UNCHANGED event
    BY <1>3, <1>4, <1>7, <2>1
  <2>4. ssl_states' \in [SSLs -> StateRecords] BY <2>3 DEF TLSType
  <2>5. TLSType' /\ Remembered' BY <1>5, <2>4, Leaves DEF T!get_servername_return
  <2>6. Agrees' BY <1>6, <2>2, <2>3 DEF TLSType, Agrees, T!get_servername_return
  <2>7. EventsAreRight'
    <3>1. CASE T!emits(state)
      <4>1. state.fd \in Fds /\ ssl[s].fd = state.fd
        BY <2>2, <3>1 DEF Agrees, StateRecords, FdOrNone, T!emits
      <4>2. T!talks(s) = T_socket[state.fd] BY <4>1 DEF T!talks
      <4>3. QED BY <2>3, <3>1, <4>2 DEF EventsAreRight, T!EventsAreRight
    <3>2. CASE ~T!emits(state) BY <2>3, <3>2, EventKept
    <3>3. QED BY <3>1, <3>2
  <2>8. QED BY <2>5, <2>6, <2>7
<1>8. CASE name = T!NoName
  <2>1. ssl_states' = ssl_states /\ event' = event /\ ssl[s].name = name BY <1>3, <1>8
  <2>2. TLSType' /\ Remembered' BY <1>5, <2>1, Leaves DEF TLSType, T!get_servername_return
  <2>3. Agrees' BY <1>6, <2>1 DEF Agrees, T!get_servername_return
  <2>4. QED BY <2>1, <2>2, <2>3, EventKept
<1>9. QED BY <1>7, <1>8

LEMMA SetBioStep ==
  ASSUME TLSInv, NEW t \in Threads, NEW s \in SSLs, NEW b \in BIOs, T!set_bio_fd(t, s, b)
  PROVE  TLSInv'
<1> USE DEF TLSInv
<1>1. ssl' = [ssl EXCEPT ![s].fd = bio[b]] /\ ssl[s].fd = T!NoFd BY DEF T!set_bio_fd
<1>2. \A q \in SSLs : /\ q # s => ssl'[q] = ssl[q]
                      /\ q = s => ssl'[q].name = ssl[q].name /\ ssl'[q].fd = bio[b]
  BY <1>1 DEF TLSType, SSLRecords
<1>3. ssl' \in [SSLs -> SSLRecords] BY <1>1 DEF TLSType, SSLRecords
<1>4. PICK state \in StateRecords : state = [T!get_state(s) EXCEPT !.fd = bio_fds[b]]
  BY DEF TLSType, StateRecords, T!get_state
<1>5. state.fd = bio_fds[b] /\ state.hostname = ssl_states[s].hostname
  BY <1>4 DEF TLSType, StateRecords, T!get_state
<1>6. ssl_states' = IF bio_fds[b] = T!NoFd THEN ssl_states ELSE [ssl_states EXCEPT ![s] = state]
  BY <1>4 DEF T!set_bio_fd
<1>7. UNCHANGED <<T!world, bio, thread, T_calls, bio_calls, active_connects, bio_fds, event>>
  BY DEF T!set_bio_fd
<1>8. TLSType' BY <1>3, <1>6, <1>7 DEF TLSType, T!world
<1>9. Remembered' BY <1>7 DEF Remembered
<1>10. Agrees' BY <1>1, <1>2, <1>5, <1>6, <1>7 DEF TLSType, Agrees
<1>11. QED BY <1>7, <1>8, <1>9, <1>10, EventKept

LEMMA HandshakeStep ==
  ASSUME TLSInv, NEW t \in Threads,
         \/ T!connect_tcp_send(t) \/ T!connect_return(t)
         \/ \E s \in SSLs : T!handshake_enter(t, s) \/ T!free_enter(t, s)
  PROVE  TLSInv'
<1> USE DEF TLSInv
<1>1. CASE T!connect_tcp_send(t)
  <2>1. /\ thread[t].ssl \in SSLs /\ active_connects[t].ssl = thread[t].ssl
    BY <1>1, CallOf, CallTypes DEF TLSType, Remembered, T!connect_tcp_send
  <2>2. PICK s \in SSLs : s = thread[t].ssl BY <2>1
  <2>3. /\ ssl_states[s].hostname # T!NoName
        /\ event' = [said |-> <<T!talks(s), ssl_states[s].hostname>>,
                     is |-> <<T!talks(s), ssl[s].name>>]
    BY <1>1, <2>1, <2>2 DEF T!connect_tcp_send, T!emit_sock
  <2>4. EventsAreRight' BY <2>3 DEF Agrees, EventsAreRight, T!EventsAreRight
  <2>5. active_connects' = [active_connects EXCEPT ![t].emitted = TRUE]
        /\ UNCHANGED <<T!world, bio, ssl, thread, T_calls, bio_calls, ssl_states, bio_fds>>
    BY <1>1 DEF T!connect_tcp_send
  <2>6. TLSType' BY <2>5 DEF TLSType, Connects, T!world
  <2>7. Remembered' /\ Agrees' BY <2>5 DEF TLSType, Connects, Remembered, Agrees
  <2>8. QED BY <2>4, <2>6, <2>7
<1>2. CASE T!connect_return(t)
  <2>1. TLSType' /\ Remembered' BY <1>2, Leaves DEF TLSType, T!connect_return
  <2>2. Agrees' BY <1>2 DEF Agrees, T!connect_return
  <2>3. QED BY <1>2, <2>1, <2>2, EventKept DEF T!connect_return
<1>3. CASE \E s \in SSLs : T!handshake_enter(t, s)
  <2>1. PICK s \in SSLs : T!handshake_enter(t, s) BY <1>3
  <2>2. EventsAreRight' BY <2>1, EmitIsRight DEF T!handshake_enter
  <2>3. UNCHANGED <<T!world, bio, ssl, thread, T!maps>> BY <2>1 DEF T!handshake_enter
  <2>4. TLSType' BY <2>3 DEF TLSType, T!world, T!maps
  <2>5. Remembered' /\ Agrees' BY <2>3 DEF Remembered, Agrees, T!maps
  <2>6. QED BY <2>2, <2>4, <2>5
<1>4. CASE \E s \in SSLs : T!free_enter(t, s)
  <2>1. PICK s \in SSLs : T!free_enter(t, s) BY <1>4
  <2>2. /\ ssl' = [ssl EXCEPT ![s] = T!Free] /\ ssl_states' = [ssl_states EXCEPT ![s] = T!NoState]
        /\ UNCHANGED <<T!world, bio, thread, T_calls, bio_calls, active_connects, bio_fds, event>>
    BY <2>1 DEF T!free_enter, T!forget
  <2>3. /\ T!NoState \in StateRecords /\ T!NoState.fd = T!NoFd /\ T!NoState.hostname = T!NoName
        /\ T!Free \in SSLRecords
    BY DEF T!NoState, T!Free, StateRecords, SSLRecords, FdOrNone, NameOrNone
  <2>4. TLSType' BY <2>2, <2>3 DEF TLSType, T!world
  <2>5. Remembered' BY <2>2 DEF Remembered
  <2>6. Agrees' BY <2>2, <2>3 DEF TLSType, Agrees
  <2>7. QED BY <2>2, <2>4, <2>5, <2>6, EventKept
<1>5. QED BY <1>1, <1>2, <1>3, <1>4

(***************************************************************************)
(* The theorem.                                                            *)
(***************************************************************************)
LEMMA TLSInit == T!Init => TLSInv
<1> SUFFICES ASSUME T!Init PROVE TLSInv OBVIOUS
<1>1. TLSType
  <2>1. /\ T!NoState \in StateRecords /\ T!Free \in SSLRecords /\ T!NoConnect \in Connects
        /\ T!NoFd \in FdOrNone
    BY DEF T!NoState, T!Free, T!NoConnect, StateRecords, SSLRecords, Connects, FdOrNone, NameOrNone
  <2>2. QED BY <2>1 DEF T!Init, TLSType, LibraryCalls
<1>2. Remembered BY CallTypes DEF T!Init, Remembered
<1>3. Agrees BY DEF T!Init, Agrees, T!NoState
<1>4. EventsAreRight BY DEF T!Init, T!NoEvent, EventsAreRight, T!EventsAreRight
<1>5. QED BY <1>1, <1>2, <1>3, <1>4 DEF TLSInv

LEMMA TLSInductive == ASSUME TLSInv, [T!Next]_tvars PROVE TLSInv'
<1>1. CASE UNCHANGED tvars
  BY <1>1 DEF tvars, TLSInv, TLSType, Remembered, Agrees, EventsAreRight, T!EventsAreRight
<1>2. CASE T!Next
  <2>1. \/ \E f \in Fds : T!Open(f) \/ T!Close(f)
        \/ \E s \in SSLs : T!SSL_new(s) \/ T!SetCustom(s)
        \/ \E b \in BIOs : T!bio_free_enter(b)
        \/ T!Evict
        \/ \E t \in Threads :
             \/ \E f \in Fds : T!bio_new_socket_enter(t, f)
             \/ \E b \in BIOs : T!bio_new_socket_return(t, b)
             \/ \E s \in SSLs :
                  \/ \E f \in Fds : T!set_fd_enter(t, s, f)
                  \/ \E b \in BIOs : T!set_bio_fd(t, s, b)
                  \/ \E name \in Names : T!ctrl_enter(t, s, name)
                  \/ T!get_servername_enter(t, s) \/ T!connect_enter(t, s)
                  \/ T!handshake_enter(t, s) \/ T!free_enter(t, s)
             \/ T!set_fd_return(t) \/ T!ctrl_return(t) \/ T!get_servername_return(t)
             \/ T!connect_tcp_send(t) \/ T!connect_return(t)
    BY <1>2 DEF T!Next
  <2>2. QED
    BY <2>1, ObjectStep, EntryStep, NewSocketStep, SetFdReturnStep, CtrlReturnStep,
       ServernameReturnStep, SetBioStep, HandshakeStep
<1>3. QED BY <1>1, <1>2

(* An event of the OpenSSL probe has the name of its SSL and the socket that  *)
(* SSL talks on, whatever addresses and descriptors are used again, whatever *)
(* the LRU maps evict and however the calls of the threads overlap           *)
(* (openssl.bpf.c).                                                          *)
THEOREM EventsRight == HostSpec => []EventsAreRight
<1>1. HostInit => TLSInv BY TLSInit DEF HostInit
<1>2. TLSInv /\ [HostNext]_<<vars, tvars, trends>> => TLSInv'
  <2> SUFFICES ASSUME TLSInv, [HostNext]_<<vars, tvars, trends>> PROVE TLSInv' OBVIOUS
  <2>1. [T!Next]_tvars BY DEF HostNext
  <2>2. QED BY <2>1, TLSInductive
<1>3. TLSInv => EventsAreRight BY DEF TLSInv
<1>4. QED BY <1>1, <1>2, <1>3, PTL DEF HostSpec

(***************************************************************************)
(* The first bytes of sockets: the inductive invariant.                    *)
(***************************************************************************)
Protocols == {6, 17}
Epochs == [of : Nat, protocol : Protocols, first : Nat]
Bytes == Nat \X Nat
Chunks == [key : Keys, offset : Nat, data : Seq(Bytes), of : Nat, protocol : Protocols,
           epoch : Epochs]
Called == [step : {"called"}]
Moved == [step : {"moved"}, bytes : Seq(Bytes)]
Offering == [step : {"output"}, bytes : Seq(Bytes), done : Nat, sent : Nat]
Streams == [of : Nat, epoch : Epochs, trusted : BOOLEAN,
            bytes : [0..(Budget - 1) -> Bytes \cup {<<>>}]]

KernelType ==
  /\ socket \in [Addresses -> [n : Nat, protocol : Protocols]] /\ opened \in Nat
  /\ moved \in [Keys -> Nat]
  /\ calls \in [Keys -> {NoCall} \cup Called \cup Moved \cup Offering]
  /\ captured \in [Keys -> 0..Forgotten]
  /\ epoch \in [Keys -> Epochs]
UserType ==
  /\ ring \in Seq(Chunks) /\ channel \in Seq(Chunks)
  /\ streams \in [Keys -> Streams \cup {NoStream}]

Stream(k) == socket[k[1]].protocol = 6
Entered(k) == epoch[k].of = socket[k[1]].n /\ epoch[k].protocol = socket[k[1]].protocol

(* An entry and a call belong to the socket at the key's address; as long as *)
(* the budget is not spent the entry has counted every byte that moved, up   *)
(* to the call under way.                                                   *)
Entry(k) ==
  /\ socket[k[1]].n = 0 => calls[k] = NoCall /\ captured[k] = Forgotten
  /\ captured[k] # Forgotten => Entered(k) /\ captured[k] > 0
  /\ captured[k] # Forgotten /\ calls[k] # NoCall => captured[k] < Budget
  /\ calls[k].step \in {"idle", "called"} /\ captured[k] < Budget /\ Stream(k) =>
       epoch[k].first + captured[k] = moved[k] + 1
  /\ calls[k].step = "moved" =>
       LET bytes == calls[k].bytes IN
       /\ Len(bytes) \in 1..moved[k]
       /\ \A i \in 1..Len(bytes) : bytes[i] = <<socket[k[1]].n, moved[k] - Len(bytes) + i>>
       /\ captured[k] # Forgotten /\ Stream(k) =>
            epoch[k].first + captured[k] = moved[k] - Len(bytes) + 1
  /\ calls[k].step = "output" =>
       LET c == calls[k] IN
       /\ Entered(k) /\ Len(c.bytes) > 0 /\ c.done + Len(c.bytes) <= Budget /\ c.sent <= Len(c.bytes)
       /\ \A i \in 1..Len(c.bytes) : c.bytes[i] = <<socket[k[1]].n, c.bytes[1][2] + i - 1>>
       /\ Stream(k) =>
            /\ \A i \in 1..Len(c.bytes) :
                 c.bytes[i] = <<socket[k[1]].n, epoch[k].first + c.done + i - 1>>
            /\ \/ c.done + Len(c.bytes) = Budget
               \/ epoch[k].first + c.done + Len(c.bytes) = moved[k] + 1
Entries == \A k \in Keys : Entry(k)

(* A chunk has bytes of its socket, in a row, and of a stream those at its   *)
(* offset from the entry's first.                                           *)
Sound(c) ==
  /\ c.epoch.of = c.of /\ c.epoch.protocol = c.protocol
  /\ \A i \in 1..Len(c.data) : c.data[i] = <<c.of, c.data[1][2] + i - 1>>
  /\ c.protocol = 6 =>
       \A i \in 1..Len(c.data) : c.data[i] = <<c.of, c.epoch.first + c.offset + i - 1>>

(* Since the start of the entry e of k was sent nothing of another entry of  *)
(* k was: what comes at i in q finds the stream of e, or none.               *)
Announced(q, s, k, e, i) ==
  \/ \E j \in 1..(i - 1) :
       /\ q[j].key = k /\ q[j].offset = 0 /\ q[j].epoch = e
       /\ \A l \in (j + 1)..(i - 1) : q[l].key = k => q[l].epoch = e
  \/ /\ \A l \in 1..(i - 1) : q[l].key = k => q[l].epoch = e
     /\ s[k].of = 0 \/ s[k].epoch = e
Begun(k) ==
  captured[k] # Forgotten \/ (calls[k].step = "output" /\ calls[k].done + calls[k].sent > 0)

(* Chunks under way, first the one that add takes next. *)
Flight == channel \o ring
Chain(q, s, m) ==
  \A i \in 1..Len(q) :
    /\ Sound(q[i])
    /\ q[i].offset # 0 /\ <<q[i].key, q[i].epoch>> \notin m => Announced(q, s, q[i].key, q[i].epoch, i)
Starts ==
  \A k \in Keys : Begun(k) /\ <<k, epoch[k]>> \notin missed =>
                    Announced(Flight, streams, k, epoch[k], Len(Flight) + 1)

(* What a stream has, as long as no start was lost. *)
Honest(s) ==
  /\ s.epoch.of = s.of
  /\ s.trusted /\ s.epoch.protocol = 6 =>
       \A o \in 0..(Budget - 1) : s.bytes[o] # <<>> => s.bytes[o] = <<s.of, s.epoch.first + o>>
Parsed == \A k \in Keys : streams[k].of # 0 => Honest(streams[k])

StreamInv ==
  /\ KernelType /\ UserType /\ Entries /\ Chain(Flight, streams, missed) /\ Starts
  /\ Parsed /\ OneSocketInARow

(***************************************************************************)
(* Chunks under way: what is appended, taken and dropped.                  *)
(***************************************************************************)
LEMMA AnnouncedSame ==
  ASSUME NEW q, NEW p, NEW s, NEW k, NEW e, NEW i \in Nat,
         \A j \in 1..(i - 1) : p[j] = q[j], Announced(q, s, k, e, i)
  PROVE  Announced(p, s, k, e, i)
  BY DEF Announced

LEMMA AnnouncedKept ==
  ASSUME NEW q \in Seq(Chunks), NEW p \in Seq(Chunks), NEW s, NEW k, NEW e, NEW i \in Nat,
         i <= Len(q) + 1, Len(q) <= Len(p), \A j \in 1..Len(q) : p[j] = q[j],
         Announced(q, s, k, e, i)
  PROVE  Announced(p, s, k, e, i)
<1>1. Len(q) \in Nat /\ Len(p) \in Nat BY LenProperties
<1>2. \A j \in 1..(i - 1) : p[j] = q[j] BY <1>1
<1>3. QED BY <1>2, AnnouncedSame

LEMMA AnnouncedPast ==
  ASSUME NEW q \in Seq(Chunks), NEW c \in Chunks, NEW s, NEW k, NEW e,
         c.key # k \/ c.epoch = e,
         Announced(q, s, k, e, Len(q) + 1)
  PROVE  Announced(Append(q, c), s, k, e, Len(q) + 2)
<1> DEFINE p == Append(q, c)
<1>1. /\ Len(q) \in Nat /\ Len(p) = Len(q) + 1 /\ p[Len(q) + 1] = c
      /\ \A j \in 1..Len(q) : p[j] = q[j]
  BY LenProperties, AppendProperties
<1> HIDE DEF p
<1>2. \A j \in 1..(Len(q) + 1) : j \in 1..Len(q) \/ j = Len(q) + 1 BY <1>1
<1>3. CASE \E j \in 1..Len(q) :
             /\ q[j].key = k /\ q[j].offset = 0 /\ q[j].epoch = e
             /\ \A l \in (j + 1)..Len(q) : q[l].key = k => q[l].epoch = e
  <2>1. PICK j \in 1..Len(q) :
             /\ q[j].key = k /\ q[j].offset = 0 /\ q[j].epoch = e
             /\ \A l \in (j + 1)..Len(q) : q[l].key = k => q[l].epoch = e
    BY <1>3
  <2>2. \A l \in (j + 1)..(Len(q) + 1) : p[l].key = k => p[l].epoch = e BY <1>1, <1>2, <2>1
  <2>3. j \in 1..(Len(q) + 1) /\ p[j].key = k /\ p[j].offset = 0 /\ p[j].epoch = e
    BY <1>1, <2>1
  <2>4. Len(q) + 2 - 1 = Len(q) + 1 BY <1>1
  <2>5. Announced(p, s, k, e, Len(q) + 2) BY <2>2, <2>3, <2>4 DEF Announced
  <2>6. QED BY <2>5 DEF p
<1>4. CASE /\ \A l \in 1..Len(q) : q[l].key = k => q[l].epoch = e
           /\ s[k].of = 0 \/ s[k].epoch = e
  <2>1. \A l \in 1..(Len(q) + 1) : p[l].key = k => p[l].epoch = e BY <1>1, <1>2, <1>4
  <2>2. Len(q) + 2 - 1 = Len(q) + 1 BY <1>1
  <2>3. Announced(p, s, k, e, Len(q) + 2) BY <1>4, <2>1, <2>2 DEF Announced
  <2>4. QED BY <2>3 DEF p
<1>5. Len(q) + 1 - 1 = Len(q) BY <1>1
<1>6. QED BY SMTT(30), <1>3, <1>4, <1>5 DEF Announced

LEMMA AnnouncedNow ==
  ASSUME NEW q \in Seq(Chunks), NEW c \in Chunks, NEW s, c.offset = 0
  PROVE  Announced(Append(q, c), s, c.key, c.epoch, Len(q) + 2)
<1> DEFINE p == Append(q, c)
<1>1. /\ Len(q) \in Nat /\ Len(p) = Len(q) + 1 /\ p[Len(q) + 1] = c
  BY LenProperties, AppendProperties
<1> HIDE DEF p
<1>2. Len(q) + 2 - 1 = Len(q) + 1 /\ Len(q) + 1 \in 1..(Len(q) + 1) BY <1>1
<1>3. \A l \in (Len(q) + 1 + 1)..(Len(q) + 1) : FALSE BY <1>1
<1>4. Announced(p, s, c.key, c.epoch, Len(q) + 2) BY <1>1, <1>2, <1>3 DEF Announced
<1>5. QED BY <1>4 DEF p

(* The first chunk is taken: what it does to the stream of its key. *)
LEMMA AnnouncedAfter ==
  ASSUME NEW q \in Seq(Chunks), q # <<>>, NEW s, NEW t, NEW k, NEW e, NEW i \in Nat,
         i >= 2, i <= Len(q) + 1,
         IF k # q[1].key THEN t[k] = s[k]
         ELSE \/ t[k].of = 0
              \/ t[k].epoch = q[1].epoch
              \/ q[1].offset # 0 /\ t[k].epoch = s[k].epoch /\ s[k].of # 0,
         Announced(q, s, k, e, i)
  PROVE  Announced(Tail(q), t, k, e, i - 1)
<1> DEFINE p == Tail(q)
<1>1. /\ Len(q) \in Nat /\ Len(q) > 0 /\ Len(p) = Len(q) - 1
      /\ \A j \in 1..Len(p) : p[j] = q[j + 1]
  BY LenProperties, HeadTailProperties, EmptySeq
<1> HIDE DEF p
<1>2. \A j \in 1..(i - 2) : p[j] = q[j + 1] /\ j + 1 \in 1..(i - 1) BY <1>1
<1>3. i - 1 - 1 = i - 2 /\ 1 \in 1..(i - 1) BY <1>1
<1>4. CASE \E j \in 2..(i - 1) :
             /\ q[j].key = k /\ q[j].offset = 0 /\ q[j].epoch = e
             /\ \A l \in (j + 1)..(i - 1) : q[l].key = k => q[l].epoch = e
  <2>1. PICK j \in 2..(i - 1) :
             /\ q[j].key = k /\ q[j].offset = 0 /\ q[j].epoch = e
             /\ \A l \in (j + 1)..(i - 1) : q[l].key = k => q[l].epoch = e
    BY <1>4
  <2>2. j - 1 \in 1..(i - 2) /\ (j - 1) + 1 = j BY <2>1
  <2>3. p[j - 1] = q[j] BY <1>2, <2>2
  <2>4. ASSUME NEW l \in j..(i - 2), p[l].key = k PROVE p[l].epoch = e
    <3>1. l \in 1..(i - 2) /\ l + 1 \in (j + 1)..(i - 1) BY <2>1
    <3>2. QED BY <1>2, <2>1, <2>4, <3>1
  <2>5. Announced(p, t, k, e, i - 1) BY <1>3, <2>1, <2>2, <2>3, <2>4 DEF Announced
  <2>6. QED BY <2>5 DEF p
<1>5. CASE /\ \A l \in 2..(i - 1) : q[l].key = k => q[l].epoch = e
           /\ t[k].of = 0 \/ t[k].epoch = e
  <2>1. \A l \in 1..(i - 2) : p[l].key = k => p[l].epoch = e
    <3>1. ASSUME NEW l \in 1..(i - 2), p[l].key = k PROVE p[l].epoch = e
      <4>1. l + 1 \in 2..(i - 1) /\ p[l] = q[l + 1] BY <1>2, <3>1
      <4>2. QED BY <1>5, <3>1, <4>1
    <3>2. QED BY <3>1
  <2>2. Announced(p, t, k, e, i - 1) BY <1>3, <1>5, <2>1 DEF Announced
  <2>3. QED BY <2>2 DEF p
<1>6. CASE \E j \in 1..(i - 1) :
             /\ q[j].key = k /\ q[j].offset = 0 /\ q[j].epoch = e
             /\ \A l \in (j + 1)..(i - 1) : q[l].key = k => q[l].epoch = e
  <2>1. PICK j \in 1..(i - 1) :
             /\ q[j].key = k /\ q[j].offset = 0 /\ q[j].epoch = e
             /\ \A l \in (j + 1)..(i - 1) : q[l].key = k => q[l].epoch = e
    BY <1>6
  <2>2. CASE j \in 2..(i - 1) BY <1>4, <2>1, <2>2
  <2>3. CASE j = 1
    <3>1. t[k].of = 0 \/ t[k].epoch = e BY <2>1, <2>3
    <3>2. \A l \in 2..(i - 1) : q[l].key = k => q[l].epoch = e BY <2>1, <2>3
    <3>3. QED BY <1>5, <3>1, <3>2
  <2>4. QED BY <2>1, <2>2, <2>3
<1>7. CASE /\ \A l \in 1..(i - 1) : q[l].key = k => q[l].epoch = e
           /\ s[k].of = 0 \/ s[k].epoch = e
  <2>1. q[1].key = k => q[1].epoch = e BY <1>3, <1>7
  <2>2. t[k].of = 0 \/ t[k].epoch = e BY <1>7, <2>1
  <2>3. \A l \in 2..(i - 1) : q[l].key = k => q[l].epoch = e BY <1>7
  <2>4. QED BY <1>5, <2>2, <2>3
<1>8. QED BY <1>6, <1>7 DEF Announced

(* A chunk that is not the entry's start is dropped from the middle. *)
LEMMA AnnouncedWithout ==
  ASSUME NEW q \in Seq(Chunks), NEW p \in Seq(Chunks), NEW s, NEW k, NEW e,
         NEW m \in 1..Len(q), Len(p) = Len(q) - 1,
         \A j \in 1..(m - 1) : p[j] = q[j],
         \A j \in m..Len(p) : p[j] = q[j + 1],
         ~(q[m].key = k /\ q[m].offset = 0 /\ q[m].epoch = e),
         NEW i \in Nat, i # m, i <= Len(q) + 1,
         Announced(q, s, k, e, i)
  PROVE  Announced(p, s, k, e, IF i < m THEN i ELSE i - 1)
<1>1. Len(q) \in Nat /\ Len(p) \in Nat BY LenProperties
<1>2. CASE i < m
  <2>1. \A j \in 1..(i - 1) : p[j] = q[j]
    <3>1. 1..(i - 1) \subseteq 1..(m - 1) BY <1>1, <1>2
    <3>2. QED BY <3>1
  <2>2. Announced(p, s, k, e, i) BY <2>1, AnnouncedSame
  <2>3. QED BY <1>2, <2>2
<1>3. CASE i > m
  <2>1. ASSUME NEW j \in 1..(i - 2) PROVE IF j < m THEN p[j] = q[j] ELSE p[j] = q[j + 1]
    <3>1. CASE j < m
      <4>1. j \in 1..(m - 1) BY <3>1
      <4>2. QED BY <3>1, <4>1
    <3>2. CASE j >= m
      <4>1. j \in m..Len(p) BY <1>1, <1>3, <3>2
      <4>2. QED BY <3>2, <4>1
    <3>3. QED BY <3>1, <3>2
  <2>2. i - 1 - 1 = i - 2 BY <1>3
  <2>3. CASE \E j \in 1..(i - 1) :
               /\ q[j].key = k /\ q[j].offset = 0 /\ q[j].epoch = e
               /\ \A l \in (j + 1)..(i - 1) : q[l].key = k => q[l].epoch = e
    <3>1. PICK j \in 1..(i - 1) :
               /\ q[j].key = k /\ q[j].offset = 0 /\ q[j].epoch = e
               /\ \A l \in (j + 1)..(i - 1) : q[l].key = k => q[l].epoch = e
      BY <2>3
    <3>2. j # m BY <3>1
    <3>3. CASE j < m
      <4>1. j \in 1..(i - 2) /\ p[j] = q[j] BY <1>3, <2>1, <3>3
      <4>2. ASSUME NEW l \in (j + 1)..(i - 2), p[l].key = k PROVE p[l].epoch = e
        <5>1. l \in 1..(i - 2) /\ l \in (j + 1)..(i - 1) /\ l + 1 \in (j + 1)..(i - 1)
          BY <4>1
        <5>2. QED BY <2>1, <3>1, <4>2, <5>1
      <4>3. QED BY <1>3, <2>2, <3>1, <4>1, <4>2 DEF Announced
    <3>4. CASE j > m
      <4>1. j - 1 \in 1..(i - 2) /\ j - 1 >= m /\ (j - 1) + 1 = j BY <1>3, <3>4
      <4>2. p[j - 1] = q[j] BY <2>1, <4>1
      <4>3. ASSUME NEW l \in j..(i - 2), p[l].key = k PROVE p[l].epoch = e
        <5>1. l \in 1..(i - 2) /\ ~(l < m) /\ l + 1 \in (j + 1)..(i - 1) BY <3>4, <4>1
        <5>2. p[l] = q[l + 1] BY <2>1, <5>1
        <5>3. QED BY <3>1, <4>3, <5>1, <5>2
      <4>4. QED BY <1>3, <2>2, <3>1, <4>1, <4>2, <4>3 DEF Announced
    <3>5. QED BY <3>2, <3>3, <3>4
  <2>4. CASE /\ \A l \in 1..(i - 1) : q[l].key = k => q[l].epoch = e
             /\ s[k].of = 0 \/ s[k].epoch = e
    <3>1. ASSUME NEW l \in 1..(i - 2), p[l].key = k PROVE p[l].epoch = e
      <4>1. l \in 1..(i - 1) /\ l + 1 \in 1..(i - 1) OBVIOUS
      <4>2. QED BY <2>1, <2>4, <3>1, <4>1
    <3>2. QED BY <1>3, <2>2, <2>4, <3>1 DEF Announced
  <2>5. QED BY <2>3, <2>4 DEF Announced
<1>4. QED BY <1>2, <1>3

(***************************************************************************)
(* Steps of the kernel that send nothing.                                  *)
(***************************************************************************)
LEMMA Quiet ==
  ASSUME StreamInv, UNCHANGED <<ring, channel, streams, named, missed>>,
         \A k \in Keys : Begun(k)' => Begun(k) /\ epoch'[k] = epoch[k]
  PROVE  UserType' /\ Chain(Flight, streams, missed)' /\ Starts' /\ Parsed' /\ OneSocketInARow'
<1> USE DEF StreamInv
<1>1. Flight' = Flight BY DEF Flight
<1>2. UserType' BY DEF UserType
<1>3. Chain(Flight, streams, missed)' BY <1>1 DEF Chain
<1>4. Starts' BY <1>1 DEF Starts
<1>5. Parsed' /\ OneSocketInARow' BY DEF Parsed, OneSocketInARow
<1>6. QED BY <1>2, <1>3, <1>4, <1>5

LEMMA Calls ==
  /\ NoCall.step = "idle"
  /\ \A c \in Called : c.step = "called"
  /\ \A c \in Moved : c.step = "moved" /\ c.bytes \in Seq(Bytes)
  /\ \A c \in Offering : /\ c.step = "output" /\ c.bytes \in Seq(Bytes)
                         /\ c.done \in Nat /\ c.sent \in Nat
  BY DEF NoCall, Called, Moved, Offering

LEMMA CallIs ==
  ASSUME KernelType, NEW k \in Keys
  PROVE  /\ calls[k].step \in {"idle", "called", "moved", "output"}
         /\ calls[k].step = "idle" <=> calls[k] = NoCall
         /\ calls[k].step = "moved" => calls[k] \in Moved
         /\ calls[k].step = "output" => calls[k] \in Offering
  BY Calls DEF KernelType

LEMMA KeyAddress == \A k \in Keys : k[1] \in Addresses /\ k[2] \in Directions
  BY DEF Keys

(* A key whose socket, call, entry and bytes stay as they are. *)
LEMMA EntrySame ==
  ASSUME NEW k \in Keys, Entry(k), socket'[k[1]] = socket[k[1]], moved'[k] = moved[k],
         calls'[k] = calls[k], captured'[k] = captured[k], epoch'[k] = epoch[k]
  PROVE  Entry(k)'
  BY DEF Entry, Entered, Stream

LEMMA OpenSocketStep ==
  ASSUME StreamInv, NEW a \in Addresses, NEW protocol \in Protocols, OpenSocket(a, protocol)
  PROVE  StreamInv'
<1> USE DEF StreamInv
<1>1. /\ socket[a].n = 0 /\ opened' = opened + 1
      /\ socket' = [socket EXCEPT ![a] = [n |-> opened', protocol |-> protocol]]
      /\ moved' = [k \in Keys |-> IF k[1] = a THEN 0 ELSE moved[k]]
      /\ UNCHANGED <<calls, captured, ring, channel, streams, named, epoch, missed>>
  BY DEF OpenSocket, user
<1>2. opened' \in Nat BY <1>1 DEF KernelType
<1>3. KernelType' BY <1>1, <1>2 DEF KernelType
<1>4. ASSUME NEW k \in Keys PROVE Entry(k)'
  <2>1. Entry(k) /\ k[1] \in Addresses BY KeyAddress DEF Entries
  <2>2. CASE k[1] = a
    <3>1. calls[k] = NoCall /\ captured[k] = Forgotten BY <1>1, <2>1, <2>2 DEF Entry
    <3>2. calls'[k] = NoCall /\ captured'[k] = Forgotten BY <1>1, <3>1
    <3>3. Forgotten \in 0..Forgotten /\ Forgotten > Budget BY BudgetAssumption DEF Forgotten
    <3>4. QED BY <3>2, <3>3, Calls, BudgetAssumption DEF Entry
  <2>3. CASE k[1] # a
    <3>1. socket'[k[1]] = socket[k[1]] /\ moved'[k] = moved[k] BY <1>1, <2>1, <2>3 DEF KernelType
    <3>2. QED BY <1>1, <2>1, <3>1, EntrySame
  <2>4. QED BY <2>2, <2>3
<1>5. Entries' BY <1>4 DEF Entries
<1>6. \A k \in Keys : Begun(k)' => Begun(k) /\ epoch'[k] = epoch[k] BY <1>1 DEF Begun
<1>7. QED BY <1>1, <1>3, <1>5, <1>6, Quiet

(* A call or an entry of one key ends: the socket may be closed with it. *)
LEMMA SocketFreedStep == ASSUME StreamInv, NEW a \in Addresses, socket_freed(a) PROVE StreamInv'
<1> USE DEF StreamInv
<1>1. /\ socket[a].n # 0 /\ \A d \in Directions : calls[<<a, d>>] = NoCall
      /\ socket' = [socket EXCEPT ![a].n = 0]
      /\ captured' = [k \in Keys |-> IF k[1] = a THEN Forgotten ELSE captured[k]]
      /\ UNCHANGED <<opened, moved, calls, ring, channel, streams, named, epoch, missed>>
  BY DEF socket_freed, user
<1>2. Forgotten \in 0..Forgotten /\ Forgotten > Budget BY BudgetAssumption DEF Forgotten
<1>3. KernelType' BY <1>1, <1>2 DEF KernelType
<1>4. ASSUME NEW k \in Keys PROVE Entry(k)'
  <2>1. Entry(k) /\ k[1] \in Addresses BY KeyAddress DEF Entries
  <2>2. CASE k[1] = a
    <3>1. k = <<a, k[2]>> /\ k[2] \in Directions BY <2>2 DEF Keys
    <3>2. calls'[k] = NoCall /\ captured'[k] = Forgotten BY <1>1, <2>2, <3>1
    <3>3. QED BY <1>2, <3>2, Calls, BudgetAssumption DEF Entry
  <2>3. CASE k[1] # a
    <3>1. socket'[k[1]] = socket[k[1]] /\ captured'[k] = captured[k]
      BY <1>1, <2>1, <2>3 DEF KernelType
    <3>2. QED BY <1>1, <2>1, <3>1, EntrySame
  <2>4. QED BY <2>2, <2>3
<1>5. Entries' BY <1>4 DEF Entries
<1>6. \A k \in Keys : Begun(k)' => Begun(k) /\ epoch'[k] = epoch[k] BY <1>1 DEF Begun
<1>7. QED BY <1>1, <1>3, <1>5, <1>6, Quiet

LEMMA EvictStep == ASSUME StreamInv, NEW k \in Keys, Evict(k) PROVE StreamInv'
<1> USE DEF StreamInv
<1>1. /\ captured' = [captured EXCEPT ![k] = Forgotten]
      /\ UNCHANGED <<socket, opened, moved, calls, ring, channel, streams, named, epoch, missed>>
  BY DEF Evict, user
<1>2. Forgotten \in 0..Forgotten /\ Forgotten > Budget BY BudgetAssumption DEF Forgotten
<1>3. KernelType' BY <1>1, <1>2 DEF KernelType
<1>4. ASSUME NEW h \in Keys PROVE Entry(h)'
  <2>1. Entry(h) BY DEF Entries
  <2>2. CASE h = k
    <3>1. captured'[h] = Forgotten BY <1>1, <2>2 DEF KernelType
    <3>2. QED BY <1>1, <1>2, <2>1, <3>1, BudgetAssumption DEF Entry, Entered, Stream
  <2>3. CASE h # k
    <3>1. captured'[h] = captured[h] BY <1>1, <2>3 DEF KernelType
    <3>2. QED BY <1>1, <2>1, <3>1, EntrySame
  <2>4. QED BY <2>2, <2>3
<1>5. Entries' BY <1>4 DEF Entries
<1>6. \A h \in Keys : Begun(h)' => Begun(h) /\ epoch'[h] = epoch[h]
  BY <1>1 DEF Begun, KernelType
<1>7. QED BY <1>1, <1>3, <1>5, <1>6, Quiet

LEMMA BeginStep == ASSUME StreamInv, NEW k \in Keys, begin(k) PROVE StreamInv'
<1> USE DEF StreamInv
<1>1. /\ calls[k] = NoCall /\ socket[k[1]].n # 0 /\ Done(k) < Budget
      /\ calls' = [calls EXCEPT ![k] = [step |-> "called"]]
      /\ UNCHANGED <<socket, opened, moved, captured, ring, channel, streams, named, epoch, missed>>
  BY DEF begin, user
<1>2. [step |-> "called"] \in Called BY DEF Called
<1>3. KernelType' BY <1>1, <1>2 DEF KernelType
<1>4. ASSUME NEW h \in Keys PROVE Entry(h)'
  <2>1. Entry(h) BY DEF Entries
  <2>2. CASE h = k
    <3>1. calls'[h].step = "called" BY <1>1, <2>2 DEF KernelType
    <3>2. captured[h] # Forgotten => captured[h] < Budget BY <1>1, <2>2 DEF Done
    <3>3. calls[h].step = "idle" BY <1>1, <2>2, Calls
    <3>4. QED BY <1>1, <2>1, <2>2, <3>1, <3>2, <3>3 DEF Entry, Entered, Stream
  <2>3. CASE h # k
    <3>1. calls'[h] = calls[h] BY <1>1, <2>3 DEF KernelType
    <3>2. QED BY <1>1, <2>1, <3>1, EntrySame
  <2>4. QED BY <2>2, <2>3
<1>5. Entries' BY <1>4 DEF Entries
<1>6. \A h \in Keys : Begun(h)' => Begun(h) /\ epoch'[h] = epoch[h]
  BY <1>1 DEF Begun, KernelType
<1>7. QED BY <1>1, <1>3, <1>5, <1>6, Quiet

LEMMA TransferStep ==
  ASSUME StreamInv, NEW k \in Keys, NEW n \in 0..2, Transfer(k, n) PROVE StreamInv'
<1> USE DEF StreamInv
<1>1. /\ socket[k[1]].n # 0
      /\ calls[k].step = "called" \/ (calls[k] = NoCall /\ Done(k) >= Budget)
      /\ moved' = [moved EXCEPT ![k] = @ + n]
      /\ UNCHANGED <<socket, opened, captured, ring, channel, streams, named, epoch, missed>>
  BY DEF Transfer, user
<1>2. moved[k] \in Nat /\ socket[k[1]].n \in Nat BY KeyAddress DEF KernelType
<1>3. moved' \in [Keys -> Nat] BY <1>1, <1>2 DEF KernelType
<1> DEFINE bytes == [i \in 1..n |-> <<socket[k[1]].n, moved[k] + i>>]
           call == [step |-> "moved", bytes |-> bytes]
<1>4. /\ bytes \in Seq(Bytes) /\ Len(bytes) = n
      /\ \A i \in 1..n : bytes[i] = <<socket[k[1]].n, moved[k] + i>>
  <2>1. \A i \in 1..n : <<socket[k[1]].n, moved[k] + i>> \in Bytes BY <1>2 DEF Bytes
  <2>2. bytes \in [1..n -> Bytes] BY <2>1
  <2>3. n \in Nat OBVIOUS
  <2>4. bytes \in Seq(Bytes) BY <2>2, <2>3, IsASeq
  <2>5. Len(bytes) = n BY <2>2, <2>3, <2>4, LenProperties
  <2>6. QED BY <2>4, <2>5
<1>5. call \in Moved /\ call.step = "moved" /\ call.bytes = bytes BY <1>4 DEF Moved
<1>6. calls' = [calls EXCEPT ![k] = IF n = 0 \/ calls[k] = NoCall THEN NoCall ELSE call]
  BY DEF Transfer, KernelType
<1> HIDE DEF bytes, call
<1>7. KernelType'
  <2>1. calls' \in [Keys -> {NoCall} \cup Called \cup Moved \cup Offering]
    BY <1>5, <1>6 DEF KernelType
  <2>2. QED BY <1>1, <1>3, <2>1 DEF KernelType
<1>8. ASSUME NEW h \in Keys PROVE Entry(h)'
  <2>1. Entry(h) BY DEF Entries
  <2>2. CASE h = k
    <3>1. moved'[k] = moved[k] + n /\ captured'[k] = captured[k] /\ epoch'[k] = epoch[k]
          /\ socket'[k[1]] = socket[k[1]]
      BY <1>1 DEF KernelType
    <3>2. CASE calls[k] = NoCall
      <4>1. calls'[k] = NoCall BY <1>6, <3>2 DEF KernelType
      <4>2. captured[k] = Forgotten \/ captured[k] >= Budget BY <1>1, <3>2, Calls DEF Done
      <4>3. ~(captured[k] < Budget) BY <4>2, BudgetAssumption DEF KernelType, Forgotten
      <4>4. QED BY <1>1, <2>1, <2>2, <3>1, <4>1, <4>3, Calls DEF Entry, Entered
    <3>3. CASE calls[k] # NoCall /\ n = 0
      <4>1. calls'[k] = NoCall /\ moved'[k] = moved[k] BY <1>2, <1>6, <3>1, <3>3 DEF KernelType
      <4>2. calls[k].step = "called" BY <1>1, <3>3
      <4>3. QED BY <1>1, <2>1, <2>2, <3>1, <4>1, <4>2, Calls DEF Entry, Entered, Stream
    <3>4. CASE calls[k] # NoCall /\ n # 0
      <4>1. calls'[k] = call BY <1>6, <3>4 DEF KernelType
      <4>2. calls[k].step = "called" BY <1>1, <3>4
      <4>3. /\ Len(bytes) \in 1..moved'[k] /\ moved'[k] - Len(bytes) = moved[k]
            /\ \A i \in 1..Len(bytes) : bytes[i] = <<socket'[k[1]].n, moved'[k] - Len(bytes) + i>>
        BY <1>2, <1>4, <3>1, <3>4
      <4>4. captured'[k] # Forgotten /\ Stream(k)' =>
              epoch'[k].first + captured'[k] = moved'[k] - Len(bytes) + 1
        BY <2>1, <2>2, <3>1, <3>4, <4>2, <4>3 DEF Entry, Stream
      <4>5. captured'[k] # Forgotten => Entered(k)' /\ captured'[k] > 0 /\ captured'[k] < Budget
        BY <2>1, <2>2, <3>1, <3>4 DEF Entry, Entered
      <4>6. calls'[k].step = "moved" /\ calls'[k].bytes = bytes BY <1>5, <4>1
      <4>7. socket'[k[1]].n # 0 BY <1>1
      <4>8. QED BY <2>2, <4>3, <4>4, <4>5, <4>6, <4>7 DEF Entry
    <3>5. QED BY <3>2, <3>3, <3>4
  <2>3. CASE h # k
    <3>1. calls'[h] = calls[h] /\ moved'[h] = moved[h] BY <1>1, <1>6, <2>3 DEF KernelType
    <3>2. QED BY <1>1, <2>1, <3>1, EntrySame
  <2>4. QED BY <2>2, <2>3
<1>9. Entries' BY <1>8 DEF Entries
<1>10. \A h \in Keys : Begun(h)' => Begun(h) /\ epoch'[h] = epoch[h]
  BY <1>1, <1>5, <1>6, Calls DEF Begun, KernelType
<1>11. QED BY <1>1, <1>7, <1>9, <1>10, Quiet

(* What finish read is what it sends: an entry begins with its first byte. *)
LEMMA ReadDoneStep == ASSUME StreamInv, NEW k \in Keys, readDone(k) PROVE StreamInv'
<1> USE DEF StreamInv
<1>1. /\ calls[k].step = "moved"
      /\ UNCHANGED <<socket, opened, moved, captured, ring, channel, streams, named, missed>>
  BY DEF readDone, user
<1>2. Entry(k) /\ calls[k] \in Moved BY <1>1, CallIs DEF Entries
<1>3. PICK all \in Seq(Bytes) : all = calls[k].bytes BY <1>2, Calls
<1> DEFINE total == smaller(Len(all), Budget - Done(k))
           some == SubSeq(all, 1, total)
           call == [step |-> "output", bytes |-> some, done |-> Done(k), sent |-> 0]
           start == [of |-> socket[k[1]].n, protocol |-> socket[k[1]].protocol, first |-> all[1][2]]
<1>4. calls' = [calls EXCEPT ![k] = call] BY <1>3 DEF readDone, KernelType
<1>5. epoch' = [epoch EXCEPT ![k] = IF captured[k] # Forgotten THEN epoch[k] ELSE start]
  BY <1>3 DEF readDone, KernelType
<1>6. moved[k] \in Nat /\ socket[k[1]].n \in Nat /\ socket[k[1]].protocol \in Protocols
  BY KeyAddress DEF KernelType
<1>7. /\ Len(all) \in 1..moved[k]
      /\ \A i \in 1..Len(all) : all[i] = <<socket[k[1]].n, moved[k] - Len(all) + i>>
      /\ captured[k] # Forgotten /\ Stream(k) =>
            epoch[k].first + captured[k] = moved[k] - Len(all) + 1
  BY <1>1, <1>2, <1>3 DEF Entry
<1>8. all[1] = <<socket[k[1]].n, moved[k] - Len(all) + 1>> /\ moved[k] - Len(all) + 1 \in Nat
  BY <1>6, <1>7
<1>9. start \in Epochs /\ start.of = socket[k[1]].n /\ start.protocol = socket[k[1]].protocol
      /\ start.first = moved[k] - Len(all) + 1
  BY <1>6, <1>8 DEF Epochs
<1>10. calls[k] # NoCall BY <1>1, Calls
<1>11. Done(k) \in 0..(Budget - 1) /\ Budget \in Nat
  BY <1>2, <1>10, BudgetAssumption DEF Entry, Done, KernelType, Forgotten
<1>12. /\ total \in 1..Len(all) /\ Done(k) + total <= Budget
       /\ total = Len(all) \/ Done(k) + total = Budget
  <2>1. PICK done \in 0..(Budget - 1) : done = Done(k) BY <1>11
  <2>2. PICK len \in Nat \ {0} : len = Len(all) BY <1>6, <1>7
  <2>3. PICK most \in Nat \ {0} : most = Budget - done BY <1>11
  <2>4. total = IF len < most THEN len ELSE most BY <2>1, <2>2, <2>3 DEF smaller
  <2> HIDE DEF total
  <2>5. total \in 1..len /\ total <= most /\ (total = len \/ total = most) BY <2>4
  <2>6. QED BY <1>11, <2>1, <2>2, <2>3, <2>5
<1> HIDE DEF total, start
<1>13. /\ some \in Seq(Bytes) /\ Len(some) = total
       /\ \A i \in 1..total : some[i] = <<socket[k[1]].n, moved[k] - Len(all) + i>>
  <2>1. \A i \in 1..total : i \in 1..Len(all) /\ all[i] \in Bytes
    BY <1>6, <1>7, <1>12, LenProperties
  <2>2. /\ some \in Seq(Bytes) /\ Len(some) = total
        /\ \A i \in 1..total : some[i] = all[i]
    <3>1. 1 \in Int /\ total \in Int /\ 1 <= total BY <1>6, <1>7, <1>12
    <3>2. QED BY <2>1, <3>1, SubSeqProperties
  <2>3. QED BY <1>7, <2>1, <2>2
<1> HIDE DEF some
<1>14. call \in Offering /\ call.step = "output" /\ call.bytes = some /\ call.done = Done(k)
       /\ call.sent = 0
  BY <1>11, <1>13 DEF Offering
<1> HIDE DEF call
<1>15. KernelType' BY <1>1, <1>4, <1>5, <1>9, <1>14 DEF KernelType
<1>16. ASSUME NEW h \in Keys PROVE Entry(h)'
  <2>1. Entry(h) BY DEF Entries
  <2>2. CASE h = k
    <3>1. calls'[k] = call /\ captured'[k] = captured[k] /\ socket' = socket /\ moved' = moved
      BY <1>1, <1>4 DEF KernelType
    <3>2. PICK e \in Epochs : e = epoch'[k] BY <1>15 DEF KernelType
    <3>3. e.of = socket[k[1]].n /\ e.protocol = socket[k[1]].protocol
      BY <1>5, <1>2, <1>9, <3>2 DEF Entry, Entered, KernelType
    <3>4. Stream(k) => e.first + Done(k) = moved[k] - Len(all) + 1
      <4>1. CASE captured[k] # Forgotten
        BY <1>5, <1>7, <3>2, <4>1 DEF Done, KernelType
      <4>2. CASE captured[k] = Forgotten
        <5>1. e = start /\ Done(k) = 0 BY <1>5, <3>2, <4>2 DEF Done, KernelType
        <5>2. QED BY <1>8, <1>9, <5>1
      <4>3. QED BY <4>1, <4>2
    <3>5. \A i \in 1..total : some[i] = <<socket[k[1]].n, some[1][2] + i - 1>>
      <4>1. some[1] = <<socket[k[1]].n, moved[k] - Len(all) + 1>> BY <1>6, <1>7, <1>12, <1>13
      <4>2. QED BY <1>6, <1>7, <1>13, <4>1
    <3>6. Stream(k) => \A i \in 1..total : some[i] = <<socket[k[1]].n, e.first + Done(k) + i - 1>>
      BY <1>6, <1>7, <1>13, <3>4
    <3>7. Stream(k) => Done(k) + total = Budget \/ e.first + Done(k) + total = moved[k] + 1
      <4>1. e.first \in Nat /\ Len(all) \in Nat /\ total \in Nat BY <1>6, <1>7, <1>12 DEF Epochs
      <4>2. CASE total = Len(all)
        BY <1>6, <1>11, <3>4, <4>1, <4>2
      <4>3. QED BY <1>12, <4>2
    <3>8. Entered(k)' /\ (Stream(k)' <=> Stream(k)) BY <3>1, <3>2, <3>3 DEF Entered, Stream
    <3>9. captured[k] # Forgotten => captured[k] > 0 /\ captured[k] < Budget
      BY <1>2, <1>10 DEF Entry
    <3>10. socket[k[1]].n # 0 BY <1>2, <1>10 DEF Entry
    <3>11. total \in Nat /\ total > 0 BY <1>6, <1>7, <1>12
    <3>12. QED BY SMTT(40), <3>11, <1>12, <1>13, <1>14, <2>2, <3>1, <3>2, <3>5, <3>6, <3>7, <3>8, <3>9, <3>10
           DEF Entry
  <2>3. CASE h # k
    <3>1. calls'[h] = calls[h] /\ epoch'[h] = epoch[h] BY <1>4, <1>5, <2>3 DEF KernelType
    <3>2. QED BY <1>1, <2>1, <3>1, EntrySame
  <2>4. QED BY <2>2, <2>3
<1>17. Entries' BY <1>16 DEF Entries
<1>18. \A h \in Keys : Begun(h)' => Begun(h) /\ epoch'[h] = epoch[h]
  <2>1. ASSUME NEW h \in Keys, h # k, Begun(h)' PROVE Begun(h) /\ epoch'[h] = epoch[h]
    BY <1>1, <1>4, <1>5, <2>1 DEF Begun, KernelType
  <2>2. ASSUME Begun(k)' PROVE captured[k] # Forgotten
    <3>1. calls'[k] = call BY <1>4 DEF KernelType
    <3>2. CASE captured[k] = Forgotten
      <4>1. Done(k) = 0 BY <3>2 DEF Done
      <4>2. QED BY <1>1, <1>14, <2>2, <3>1, <4>1 DEF Begun
    <3>3. QED BY <3>2
  <2>3. Begun(k)' => Begun(k) /\ epoch'[k] = epoch[k] BY <1>5, <2>2 DEF Begun, KernelType
  <2>4. QED BY <2>1, <2>3
<1>19. QED BY <1>1, <1>15, <1>17, <1>18, Quiet

(* How far the call under way has come, as Entry says.                      *)
LEMMA Offered ==
  ASSUME NEW k \in Keys, Entry(k), calls[k].step = "output"
  PROVE  /\ Len(calls[k].bytes) > 0 /\ calls[k].done + Len(calls[k].bytes) <= Budget
         /\ Stream(k) => \/ calls[k].done + Len(calls[k].bytes) = Budget
                         \/ epoch[k].first + calls[k].done + Len(calls[k].bytes) = moved[k] + 1
  BY ZenonT(30) DEF Entry

LEMMA CountOfferedStep == ASSUME StreamInv, NEW k \in Keys, countOffered(k) PROVE StreamInv'
<1> USE DEF StreamInv
<1>1. /\ calls[k].step = "output" /\ calls[k].sent = Len(calls[k].bytes) /\ ~Datagrams(k)
      /\ captured' = [captured EXCEPT ![k] = calls[k].done + Len(calls[k].bytes)]
      /\ calls' = [calls EXCEPT ![k] = NoCall]
      /\ UNCHANGED <<socket, opened, moved, ring, channel, streams, named, epoch, missed>>
  BY DEF countOffered, user
<1>2. Entry(k) /\ calls[k] \in Offering BY <1>1, CallIs DEF Entries
<1>3. PICK n \in Nat : n = Len(calls[k].bytes) BY <1>2, Calls, LenProperties
<1>4. PICK done \in Nat : done = calls[k].done BY <1>2, Calls
<1>5. /\ done + n \in 1..Budget /\ n > 0 /\ calls[k].sent = n
      /\ Stream(k) => done + n = Budget \/ epoch[k].first + done + n = moved[k] + 1
  <2>1. n > 0 /\ done + n <= Budget /\ calls[k].sent = n
    BY <1>1, <1>2, <1>3, <1>4, Offered
  <2>2. Stream(k) => done + n = Budget \/ epoch[k].first + done + n = moved[k] + 1
    BY <1>1, <1>2, <1>3, <1>4, Offered
  <2>3. QED BY <2>1, <2>2, BudgetAssumption
<1>6. done + n # Forgotten /\ done + n \in 0..Forgotten BY <1>5, BudgetAssumption DEF Forgotten
<1>7. KernelType' BY <1>1, <1>3, <1>4, <1>6 DEF KernelType
<1>8. ASSUME NEW h \in Keys PROVE Entry(h)'
  <2>1. Entry(h) BY DEF Entries
  <2>2. CASE h = k
    <3>1. captured'[k] = done + n /\ calls'[k] = NoCall BY <1>1, <1>3, <1>4 DEF KernelType
    <3>2. epoch[k].first \in Nat /\ moved[k] \in Nat BY DEF KernelType, Epochs
    <3>3. Entered(k) BY <1>1, <1>2 DEF Entry
    <3>4. socket[k[1]].n # 0 BY <1>1, <1>2, Calls DEF Entry
    <3>5. Stream(k) /\ done + n < Budget => epoch[k].first + (done + n) = moved[k] + 1
      BY <1>5, <3>2
    <3>6. QED BY <1>1, <1>5, <1>6, <2>2, <3>1, <3>3, <3>4, <3>5, Calls DEF Entry, Entered, Stream
  <2>3. CASE h # k
    <3>1. captured'[h] = captured[h] /\ calls'[h] = calls[h] BY <1>1, <2>3 DEF KernelType
    <3>2. QED BY <1>1, <2>1, <3>1, EntrySame
  <2>4. QED BY <2>2, <2>3
<1>9. Entries' BY <1>8 DEF Entries
<1>10. Begun(k) BY <1>1, <1>4, <1>5 DEF Begun
<1>11. \A h \in Keys : Begun(h)' => Begun(h) /\ epoch'[h] = epoch[h]
  BY <1>1, <1>10 DEF Begun, KernelType
<1>12. QED BY <1>1, <1>7, <1>9, <1>11, Quiet

(***************************************************************************)
(* Steps that send, drop and take chunks.                                  *)
(***************************************************************************)
LEMMA ConcatAppend ==
  ASSUME NEW q \in Seq(Chunks), NEW p \in Seq(Chunks), NEW c \in Chunks
  PROVE  q \o Append(p, c) = Append(q \o p, c)
<1>1. /\ Append(p, c) \in Seq(Chunks) /\ Len(Append(p, c)) = Len(p) + 1
      /\ \A i \in 1..(Len(p) + 1) : Append(p, c)[i] = IF i <= Len(p) THEN p[i] ELSE c
  BY AppendProperties
<1>2. PICK w \in Seq(Chunks) : w = q \o p BY ConcatProperties
<1>3. /\ Len(w) = Len(q) + Len(p)
       /\ \A i \in 1..(Len(q) + Len(p)) : w[i] = IF i <= Len(q) THEN q[i] ELSE p[i - Len(q)]
  BY <1>2, ConcatProperties
<1>4. PICK r \in Seq(Chunks) : r = q \o Append(p, c) BY <1>1, ConcatProperties
<1>5. PICK t \in Seq(Chunks) : t = Append(w, c) BY AppendProperties
<1>6. Len(q) \in Nat /\ Len(p) \in Nat BY LenProperties
<1>7. /\ Len(r) = Len(q) + Len(p) + 1
      /\ \A i \in 1..Len(r) : r[i] = IF i <= Len(q) THEN q[i] ELSE Append(p, c)[i - Len(q)]
  BY <1>1, <1>4, <1>6, ConcatProperties
<1>8. /\ Len(t) = Len(q) + Len(p) + 1 /\ t[Len(t)] = c
      /\ \A i \in 1..(Len(q) + Len(p)) : t[i] = w[i]
  <2>1. Len(t) = Len(w) + 1 /\ t[Len(w) + 1] = c /\ \A i \in 1..Len(w) : t[i] = w[i]
    BY <1>5, AppendProperties
  <2>2. QED BY <1>3, <2>1
<1>9. ASSUME NEW i \in 1..Len(r) PROVE r[i] = t[i]
  <2>1. CASE i <= Len(q)
    <3>1. i \in 1..(Len(q) + Len(p)) BY <1>6, <1>7, <2>1
    <3>2. r[i] = q[i] BY <1>7, <2>1
    <3>3. w[i] = q[i] BY <1>3, <2>1, <3>1
    <3>4. QED BY <1>8, <3>1, <3>2, <3>3
  <2>2. CASE ~(i <= Len(q))
    <3>1. i - Len(q) \in 1..(Len(p) + 1) BY <1>6, <1>7, <2>2
    <3>2. r[i] = Append(p, c)[i - Len(q)] BY <1>7, <2>2
    <3>3. CASE i = Len(r)
      <4>1. ~(i - Len(q) <= Len(p)) BY <1>6, <1>7, <3>3
      <4>2. QED BY <1>1, <1>7, <1>8, <3>1, <3>2, <3>3, <4>1
    <3>4. CASE i # Len(r)
      <4>1. i \in 1..(Len(q) + Len(p)) /\ i - Len(q) <= Len(p) BY <1>6, <1>7, <2>2, <3>4
      <4>2. w[i] = p[i - Len(q)] BY <1>3, <2>2, <4>1
      <4>3. r[i] = p[i - Len(q)] BY <1>1, <3>1, <3>2, <4>1
      <4>4. QED BY <1>8, <4>1, <4>2, <4>3
    <3>5. QED BY <3>3, <3>4
  <2>3. QED BY <2>1, <2>2
<1>10. QED BY <1>2, <1>4, <1>5, <1>7, <1>8, <1>9, SeqEqual

LEMMA Sending ==
  ASSUME StreamInv, NEW k \in Keys, NEW offset \in Nat, NEW data,
         output(k, offset, data), UNCHANGED <<epoch, channel, streams, named>>,
         chunk(k, offset, data) \in Chunks, Sound(chunk(k, offset, data)),
         offset = 0 \/ Begun(k),
         \A h \in Keys : h # k /\ Begun(h)' => Begun(h)
  PROVE  UserType' /\ Chain(Flight, streams, missed)' /\ Starts' /\ Parsed' /\ OneSocketInARow'
<1> USE DEF StreamInv
<1>1. Parsed' /\ OneSocketInARow' BY DEF Parsed, OneSocketInARow
<1>2. PICK c \in Chunks : c = chunk(k, offset, data) OBVIOUS
<1>3. Sound(c) /\ c.key = k /\ c.epoch = epoch[k] /\ c.offset = offset BY <1>2 DEF chunk
<1>4. PICK q \in Seq(Chunks) : q = Flight BY ConcatProperties DEF Flight, UserType
<1>5. Len(q) \in Nat BY LenProperties
<1>6. CASE full
  <2>1. ring' = ring /\ missed' = IF offset = 0 THEN missed \cup {<<k, epoch[k]>>} ELSE missed
    BY <1>6 DEF output
  <2>2. Flight' = Flight /\ missed \subseteq missed' BY <2>1 DEF Flight
  <2>3. UserType' BY <2>1 DEF UserType
  <2>4. Chain(Flight, streams, missed)' BY <2>2 DEF Chain
  <2>5. ASSUME NEW h \in Keys, Begun(h)', <<h, epoch[h]>> \notin missed'
        PROVE  Announced(Flight, streams, h, epoch[h], Len(Flight) + 1)'
    <3>1. Begun(h) BY <2>1, <2>5
    <3>2. QED BY <2>2, <2>5, <3>1 DEF Starts
  <2>6. Starts' BY <2>5 DEF Starts
  <2>7. QED BY <1>1, <2>3, <2>4, <2>6
<1>7. CASE ~full
  <2>1. ring' = Append(ring, c) /\ missed' = missed BY <1>2, <1>7 DEF output
  <2>2. UserType' BY <2>1, AppendProperties DEF UserType
  <2>3. Flight' = Append(q, c) BY <1>4, <2>1, ConcatAppend DEF Flight, UserType
  <2>4. PICK p \in Seq(Chunks) : p = Append(q, c) BY AppendProperties
  <2>5. Len(p) = Len(q) + 1 /\ p[Len(q) + 1] = c /\ \A j \in 1..Len(q) : p[j] = q[j]
    BY <1>5, <2>4, AppendProperties
  <2>6. Begun(k) /\ <<k, epoch[k]>> \notin missed => Announced(q, streams, k, epoch[k], Len(q) + 1)
    BY <1>4 DEF Starts
  <2>7. ASSUME NEW i \in 1..Len(p)
        PROVE  /\ Sound(p[i])
               /\ p[i].offset # 0 /\ <<p[i].key, p[i].epoch>> \notin missed =>
                    Announced(p, streams, p[i].key, p[i].epoch, i)
    <3>1. CASE i \in 1..Len(q)
      <4>1. /\ Sound(q[i])
            /\ q[i].offset # 0 /\ <<q[i].key, q[i].epoch>> \notin missed =>
                    Announced(q, streams, q[i].key, q[i].epoch, i)
        BY <1>4, <3>1 DEF Chain
      <4>2. i \in Nat /\ i <= Len(q) + 1 /\ Len(q) <= Len(p) BY <1>5, <2>5, <3>1
      <4>3. QED BY <2>5, <3>1, <4>1, <4>2, AnnouncedKept
    <3>2. CASE i = Len(q) + 1
      <4>1. p[i].offset # 0 /\ <<p[i].key, p[i].epoch>> \notin missed =>
              Announced(q, streams, k, epoch[k], i)
        BY <1>3, <2>5, <2>6, <3>2
      <4>2. i \in Nat /\ i <= Len(q) + 1 /\ Len(q) <= Len(p) BY <1>5, <2>5, <3>2
      <4>3. QED BY <1>3, <2>5, <3>2, <4>1, <4>2, AnnouncedKept
    <3>3. QED BY <1>5, <2>5, <3>1, <3>2
  <2>8. Chain(Flight, streams, missed)' BY <2>1, <2>3, <2>4, <2>7 DEF Chain
  <2>9. ASSUME NEW h \in Keys, Begun(h)', <<h, epoch[h]>> \notin missed
        PROVE  Announced(p, streams, h, epoch[h], Len(q) + 2)
    <3>1. CASE Begun(h)
      <4>1. Announced(q, streams, h, epoch[h], Len(q) + 1) BY <1>4, <2>9, <3>1 DEF Starts
      <4>2. c.key # h \/ c.epoch = epoch[h] BY <1>3
      <4>3. QED BY <2>4, <4>1, <4>2, AnnouncedPast
    <3>2. CASE ~Begun(h)
      <4>1. h = k /\ c.offset = 0 BY <1>3, <2>9, <3>2
      <4>2. QED BY <1>3, <2>4, <4>1, AnnouncedNow
    <3>3. QED BY <3>1, <3>2
  <2>10. Starts'
    <3>1. Len(p) + 1 = Len(q) + 2 BY <1>5, <2>5
    <3>2. QED BY <2>1, <2>3, <2>4, <2>9, <3>1 DEF Starts
  <2>11. QED BY <1>1, <2>2, <2>8, <2>10
<1>8. QED BY <1>6, <1>7

(* A piece of what a call offers is a sound chunk. *)
LEMMA PieceSound ==
  ASSUME StreamInv, NEW k \in Keys, calls[k].step = "output", NEW sent \in Nat, NEW n \in Nat \ {0},
         sent + n <= Len(calls[k].bytes)
  PROVE  LET c == chunk(k, calls[k].done + sent, SubSeq(calls[k].bytes, sent + 1, sent + n)) IN
         c \in Chunks /\ Sound(c)
<1> USE DEF StreamInv
<1>1. Entry(k) /\ calls[k] \in Offering BY CallIs DEF Entries
<1>2. PICK bytes \in Seq(Bytes) : bytes = calls[k].bytes BY <1>1, Calls
<1>3. PICK done \in Nat : done = calls[k].done BY <1>1, Calls
<1>4. socket[k[1]].n \in Nat /\ socket[k[1]].protocol \in Protocols BY KeyAddress DEF KernelType
<1>5. PICK e \in Epochs : e = epoch[k] BY DEF KernelType
<1>6. /\ e.of = socket[k[1]].n /\ e.protocol = socket[k[1]].protocol
      /\ \A i \in 1..Len(bytes) : bytes[i] = <<socket[k[1]].n, bytes[1][2] + i - 1>>
      /\ Stream(k) => \A i \in 1..Len(bytes) : bytes[i] = <<socket[k[1]].n, e.first + done + i - 1>>
  BY <1>1, <1>2, <1>3, <1>5 DEF Entry, Entered
<1>7. Len(bytes) \in Nat /\ 1 \in 1..Len(bytes) /\ \A i \in 1..Len(bytes) : bytes[i] \in Bytes
  BY <1>2, LenProperties
<1> DEFINE data == SubSeq(bytes, sent + 1, sent + n)
<1>8. data \in Seq(Bytes) /\ Len(data) = n /\ \A i \in 1..n : data[i] = bytes[sent + i]
  <2>1. \A i \in (sent + 1)..(sent + n) : bytes[i] \in Bytes BY <1>2, <1>7
  <2>2. sent + 1 \in Int /\ sent + n \in Int /\ sent + 1 <= sent + n OBVIOUS
  <2>3. /\ data \in Seq(Bytes) /\ Len(data) = (sent + n) - (sent + 1) + 1
        /\ \A i \in 1..((sent + n) - (sent + 1) + 1) : data[i] = bytes[(sent + 1) + i - 1]
    BY <2>1, <2>2, SubSeqProperties
  <2>4. (sent + n) - (sent + 1) + 1 = n /\ \A i \in 1..n : (sent + 1) + i - 1 = sent + i
    OBVIOUS
  <2>5. QED BY <2>3, <2>4
<1> HIDE DEF data
<1>9. PICK c : c = chunk(k, done + sent, data) OBVIOUS
<1>10. /\ c.key = k /\ c.offset = done + sent /\ c.data = data /\ c.of = socket[k[1]].n
       /\ c.protocol = socket[k[1]].protocol /\ c.epoch = e
  BY <1>5, <1>9 DEF chunk
<1>11. c \in Chunks BY <1>4, <1>5, <1>8, <1>9 DEF chunk, Chunks
<1>12. bytes[1][2] \in Nat BY <1>7 DEF Bytes
<1>13. \A i \in 1..n : sent + i \in 1..Len(bytes) /\ sent + 1 \in 1..Len(bytes) BY <1>2, <1>7
<1>14. \A i \in 1..n : data[i] = <<socket[k[1]].n, bytes[1][2] + sent + i - 1>>
  <2>1. ASSUME NEW i \in 1..n PROVE data[i] = <<socket[k[1]].n, bytes[1][2] + sent + i - 1>>
    <3>1. bytes[sent + i] = <<socket[k[1]].n, bytes[1][2] + (sent + i) - 1>> BY <1>6, <1>13
    <3>2. bytes[1][2] + (sent + i) - 1 = bytes[1][2] + sent + i - 1 BY <1>12
    <3>3. QED BY <1>8, <3>1, <3>2
  <2>2. QED BY <2>1
<1>15. data[1] = <<socket[k[1]].n, bytes[1][2] + sent>> BY <1>12, <1>14
<1>16. \A i \in 1..n : data[i] = <<socket[k[1]].n, data[1][2] + i - 1>> BY <1>12, <1>14, <1>15
<1>17. e.first \in Nat BY DEF Epochs
<1>18. Stream(k) => \A i \in 1..n : data[i] = <<socket[k[1]].n, e.first + (done + sent) + i - 1>>
  <2>1. ASSUME Stream(k), NEW i \in 1..n
        PROVE  data[i] = <<socket[k[1]].n, e.first + (done + sent) + i - 1>>
    <3>1. bytes[sent + i] = <<socket[k[1]].n, e.first + done + (sent + i) - 1>>
      BY <1>6, <1>13, <2>1
    <3>2. e.first + done + (sent + i) - 1 = e.first + (done + sent) + i - 1 BY <1>17
    <3>3. QED BY <1>8, <3>1, <3>2
  <2>2. QED BY <2>1
<1>19. Sound(c) BY <1>6, <1>8, <1>10, <1>16, <1>18 DEF Sound, Stream
<1>20. QED BY <1>2, <1>3, <1>9, <1>11, <1>19 DEF data

LEMMA OutputChunkStep == ASSUME StreamInv, NEW k \in Keys, outputChunk(k) PROVE StreamInv'
<1> USE DEF StreamInv
<1>1. /\ calls[k].step = "output" /\ ~Datagrams(k) /\ calls[k].sent < Len(calls[k].bytes)
      /\ UNCHANGED <<socket, opened, moved, captured, channel, streams, named, epoch>>
  BY DEF outputChunk, user
<1>2. Entry(k) /\ calls[k] \in Offering BY <1>1, CallIs DEF Entries
<1>3. PICK len \in Nat : len = Len(calls[k].bytes) BY <1>2, Calls, LenProperties
<1>4. PICK sent \in Nat : sent = calls[k].sent BY <1>2, Calls
<1>5. PICK done \in Nat : done = calls[k].done BY <1>2, Calls
<1>6. PICK n \in Nat \ {0} : n = smaller(len - sent, Chunk) /\ sent + n <= len
  <2>1. sent < len BY <1>1, <1>3, <1>4
  <2>2. Chunk \in Nat /\ Chunk # 0 BY BudgetAssumption
  <2>3. QED BY <2>1, <2>2 DEF smaller
<1>7. output(k, done + sent, SubSeq(calls[k].bytes, sent + 1, sent + n))
  BY <1>3, <1>4, <1>5, <1>6 DEF outputChunk
<1>8. PICK after \in Nat : /\ after <= len
                           /\ calls' = [calls EXCEPT ![k] = [calls[k] EXCEPT !.sent = after]]
  <2>1. PICK after : /\ after = IF full THEN len ELSE sent + n
                     /\ calls' = [calls EXCEPT ![k] = [calls[k] EXCEPT !.sent = after]]
    BY <1>3, <1>4, <1>5, <1>6 DEF outputChunk, KernelType
  <2>2. after \in Nat /\ after <= len BY <1>6, <2>1
  <2>3. QED BY <2>1, <2>2
<1>9. PICK call \in Offering : /\ call = [calls[k] EXCEPT !.sent = after]
                               /\ call.step = "output" /\ call.sent = after
                               /\ call.bytes = calls[k].bytes /\ call.done = calls[k].done
  <2>1. PICK c \in Offering : c = calls[k] BY <1>2
  <2>2. [c EXCEPT !.sent = after] \in Offering BY DEF Offering
  <2>3. /\ [c EXCEPT !.sent = after].step = "output" /\ [c EXCEPT !.sent = after].sent = after
        /\ [c EXCEPT !.sent = after].bytes = c.bytes /\ [c EXCEPT !.sent = after].done = c.done
    BY DEF Offering
  <2>4. QED BY <2>1, <2>2, <2>3
<1>10. calls' = [calls EXCEPT ![k] = call] BY <1>8, <1>9
<1>11. KernelType' BY <1>1, <1>9, <1>10 DEF KernelType
<1>12. ASSUME NEW h \in Keys PROVE Entry(h)'
  <2>1. Entry(h) BY DEF Entries
  <2>2. CASE h = k
    <3>1. calls'[k] = call BY <1>10 DEF KernelType
    <3>2. calls[k] # NoCall /\ call # NoCall BY <1>1, <1>9, Calls
    <3>3. QED BY <1>1, <1>2, <1>3, <1>8, <1>9, <2>2, <3>1, <3>2 DEF Entry, Entered, Stream
  <2>3. CASE h # k
    <3>1. calls'[h] = calls[h] BY <1>10, <2>3 DEF KernelType
    <3>2. QED BY <1>1, <2>1, <3>1, EntrySame
  <2>4. QED BY <2>2, <2>3
<1>13. Entries' BY <1>12 DEF Entries
<1>14. LET c == chunk(k, done + sent, SubSeq(calls[k].bytes, sent + 1, sent + n)) IN
       c \in Chunks /\ Sound(c)
  BY <1>1, <1>3, <1>5, <1>6, PieceSound
<1>15. done + sent = 0 \/ Begun(k) BY <1>1, <1>4, <1>5 DEF Begun
<1>16. \A h \in Keys : h # k /\ Begun(h)' => Begun(h) BY <1>1, <1>10 DEF Begun, KernelType
<1>17. QED BY <1>1, <1>7, <1>11, <1>13, <1>14, <1>15, <1>16, Sending

LEMMA FinishDatagramStep ==
  ASSUME StreamInv, NEW k \in Keys, NEW quic \in BOOLEAN, finish_datagram(k, quic)
  PROVE  StreamInv'
<1> USE DEF StreamInv
<1>1. /\ calls[k].step = "output" /\ Datagrams(k) /\ calls' = [calls EXCEPT ![k] = NoCall]
      /\ UNCHANGED <<socket, opened, moved, channel, streams, named, epoch>>
  BY DEF finish_datagram, user
<1>2. Entry(k) /\ calls[k] \in Offering /\ calls[k] # NoCall BY <1>1, CallIs, Calls DEF Entries
<1>3. PICK len \in Nat : len = Len(calls[k].bytes) BY <1>2, Calls, LenProperties
<1>4. PICK done \in Nat : done = calls[k].done BY <1>2, Calls
<1>5. Entered(k) /\ len > 0 /\ done + len <= Budget BY <1>1, <1>2, <1>3, <1>4 DEF Entry
<1>6. PICK n \in Nat \ {0} : n = smaller(len, Chunk) /\ n <= len
  BY <1>5, BudgetAssumption DEF smaller
<1>7. ~Stream(k) BY <1>1 DEF Datagrams, Stream
<1>8. /\ quic => output(k, done, SubSeq(calls[k].bytes, 1, n)) /\ captured' = [captured EXCEPT ![k] = done + n]
      /\ ~quic => UNCHANGED <<ring, missed, captured>>
  BY <1>1, <1>3, <1>4, <1>6 DEF finish_datagram
<1>9. done + n \in 1..Budget /\ done + n # Forgotten /\ done + n \in 0..Forgotten
  BY <1>5, <1>6, BudgetAssumption DEF Forgotten
<1>10. KernelType'
  <2>1. captured' \in [Keys -> 0..Forgotten] BY <1>8, <1>9 DEF KernelType
  <2>2. QED BY <1>1, <2>1 DEF KernelType
<1>11. ASSUME NEW h \in Keys PROVE Entry(h)'
  <2>1. Entry(h) BY DEF Entries
  <2>2. CASE h = k
    <3>1. calls'[k] = NoCall /\ Entered(k)' /\ ~Stream(k)' BY <1>1, <1>5, <1>7 DEF KernelType, Entered, Stream
    <3>2. captured'[k] = captured[k] \/ captured'[k] = done + n BY <1>8 DEF KernelType
    <3>3. captured'[k] # Forgotten => captured'[k] > 0 BY <1>2, <1>9, <3>2 DEF Entry
    <3>4. socket'[k[1]].n # 0 BY <1>1, <1>2 DEF Entry
    <3>5. QED BY <2>2, <3>1, <3>3, <3>4, Calls DEF Entry
  <2>3. CASE h # k
    <3>1. calls'[h] = calls[h] /\ captured'[h] = captured[h] BY <1>1, <1>8, <2>3 DEF KernelType
    <3>2. QED BY <1>1, <2>1, <3>1, EntrySame
  <2>4. QED BY <2>2, <2>3
<1>12. Entries' BY <1>11 DEF Entries
<1>13. CASE quic
  <2>1. LET c == chunk(k, done, SubSeq(calls[k].bytes, 1, n)) IN c \in Chunks /\ Sound(c)
    <3>1. 0 \in Nat /\ 0 + n <= Len(calls[k].bytes) BY <1>3, <1>6
    <3>2. done + 0 = done /\ 0 + 1 = 1 /\ 0 + n = n BY <1>6
    <3>3. LET c == chunk(k, calls[k].done + 0, SubSeq(calls[k].bytes, 0 + 1, 0 + n)) IN
          c \in Chunks /\ Sound(c)
      BY <1>1, <1>6, <3>1, PieceSound
    <3>4. QED BY <1>4, <3>2, <3>3
  <2>2. done = 0 \/ Begun(k)
    <3>1. calls[k].sent \in Nat BY <1>2, Calls
    <3>2. QED BY <1>1, <1>4, <3>1 DEF Begun
  <2>3. \A h \in Keys : h # k /\ Begun(h)' => Begun(h)
    BY <1>1, <1>8, <1>13 DEF Begun, KernelType
  <2>4. QED BY <1>1, <1>8, <1>10, <1>12, <1>13, <2>1, <2>2, <2>3, Sending
<1>14. CASE ~quic
  <2>1. \A h \in Keys : Begun(h)' => Begun(h) /\ epoch'[h] = epoch[h]
    BY <1>1, <1>8, <1>14, Calls DEF Begun, KernelType
  <2>2. QED BY <1>1, <1>8, <1>10, <1>12, <1>14, <2>1, Quiet
<1>15. QED BY <1>13, <1>14

LEMMA HeadMoved ==
  ASSUME NEW q \in Seq(Chunks), NEW p \in Seq(Chunks), p # <<>>
  PROVE  Append(q, Head(p)) \o Tail(p) = q \o p
<1>1. PICK c \in Chunks : c = Head(p) /\ c = p[1] BY HeadTailProperties
<1>2. PICK t \in Seq(Chunks) : t = Tail(p) /\ Len(t) = Len(p) - 1 /\ \A i \in 1..Len(t) : t[i] = p[i + 1]
  BY HeadTailProperties
<1>3. PICK a \in Seq(Chunks) : a = Append(q, c) BY AppendProperties
<1>4. Len(a) = Len(q) + 1 /\ a[Len(q) + 1] = c /\ \A i \in 1..Len(q) : a[i] = q[i]
  BY <1>3, AppendProperties
<1>5. PICK r \in Seq(Chunks) : r = a \o t BY ConcatProperties
<1>6. Len(r) = Len(a) + Len(t)
        /\ \A i \in 1..(Len(a) + Len(t)) : r[i] = IF i <= Len(a) THEN a[i] ELSE t[i - Len(a)]
  BY <1>5, ConcatProperties
<1>7. PICK s \in Seq(Chunks) : s = q \o p BY ConcatProperties
<1>8. Len(s) = Len(q) + Len(p)
        /\ \A i \in 1..(Len(q) + Len(p)) : s[i] = IF i <= Len(q) THEN q[i] ELSE p[i - Len(q)]
  BY <1>7, ConcatProperties
<1>9. Len(q) \in Nat /\ Len(p) \in Nat BY LenProperties
<1>10. Len(r) = Len(s) /\ Len(s) = Len(q) + Len(p) BY <1>2, <1>4, <1>6, <1>8, <1>9
<1>11. ASSUME NEW i \in 1..Len(r) PROVE r[i] = s[i]
  <2>1. i \in 1..(Len(q) + Len(p)) /\ i \in 1..(Len(a) + Len(t)) BY <1>6, <1>10
  <2>2. CASE i <= Len(q)
    <3>1. i <= Len(a) /\ i \in 1..Len(q) BY <1>4, <1>9, <2>2
    <3>2. r[i] = a[i] BY <1>6, <2>1, <3>1
    <3>3. s[i] = q[i] BY <1>8, <2>1, <2>2
    <3>4. QED BY <1>4, <3>1, <3>2, <3>3
  <2>3. CASE i = Len(q) + 1
    <3>1. i <= Len(a) /\ ~(i <= Len(q)) /\ i - Len(q) = 1 BY <1>4, <1>9, <2>3
    <3>2. r[i] = a[i] BY <1>6, <2>1, <3>1
    <3>3. s[i] = p[1] BY <1>8, <2>1, <3>1
    <3>4. QED BY <1>1, <1>4, <2>3, <3>2, <3>3
  <2>4. CASE i > Len(q) + 1
    <3>1. /\ ~(i <= Len(a)) /\ ~(i <= Len(q)) /\ i - Len(q) = (i - Len(a)) + 1
          /\ i - Len(a) \in 1..Len(t)
      BY <1>2, <1>4, <1>9, <1>10, <2>4
    <3>2. r[i] = t[i - Len(a)] BY <1>6, <2>1, <3>1
    <3>3. s[i] = p[i - Len(q)] BY <1>8, <2>1, <3>1
    <3>4. QED BY <1>2, <3>1, <3>2, <3>3
  <2>5. QED BY <1>9, <2>2, <2>3, <2>4
<1>12. r = s BY <1>10, <1>11, SeqEqual
<1>13. QED BY <1>1, <1>2, <1>3, <1>5, <1>7, <1>12

(* The head of the ring is at its place after the channel, and without it the *)
(* chunks behind it move up.                                                  *)
LEMMA HeadDropped ==
  ASSUME NEW q \in Seq(Chunks), NEW p \in Seq(Chunks), p # <<>>
  PROVE  /\ q \o Tail(p) \in Seq(Chunks) /\ q \o p \in Seq(Chunks)
         /\ Len(q) + 1 \in 1..Len(q \o p) /\ Len(q \o Tail(p)) = Len(q \o p) - 1
         /\ (q \o p)[Len(q) + 1] = Head(p)
         /\ \A j \in 1..((Len(q) + 1) - 1) : (q \o Tail(p))[j] = (q \o p)[j]
         /\ \A j \in (Len(q) + 1)..Len(q \o Tail(p)) : (q \o Tail(p))[j] = (q \o p)[j + 1]
<1>1. PICK t \in Seq(Chunks) : t = Tail(p) /\ Len(t) = Len(p) - 1 /\ \A i \in 1..Len(t) : t[i] = p[i + 1]
  BY HeadTailProperties
<1>2. PICK r \in Seq(Chunks) : r = q \o t BY ConcatProperties
<1>3. Len(r) = Len(q) + Len(t)
        /\ \A i \in 1..(Len(q) + Len(t)) : r[i] = IF i <= Len(q) THEN q[i] ELSE t[i - Len(q)]
  BY <1>2, ConcatProperties
<1>4. PICK s \in Seq(Chunks) : s = q \o p BY ConcatProperties
<1>5. Len(s) = Len(q) + Len(p)
        /\ \A i \in 1..(Len(q) + Len(p)) : s[i] = IF i <= Len(q) THEN q[i] ELSE p[i - Len(q)]
  BY <1>4, ConcatProperties
<1>6. Len(q) \in Nat /\ Len(p) \in Nat /\ Len(p) > 0 BY LenProperties, EmptySeq
<1>7. Len(q) + 1 \in 1..Len(s) /\ Len(r) = Len(s) - 1 BY <1>1, <1>3, <1>5, <1>6
<1>8. s[Len(q) + 1] = Head(p)
  <2>1. ~(Len(q) + 1 <= Len(q)) /\ (Len(q) + 1) - Len(q) = 1 BY <1>6
  <2>2. s[Len(q) + 1] = p[1] BY <1>5, <1>7, <2>1
  <2>3. QED BY <2>2, HeadTailProperties
<1>9. ASSUME NEW j \in 1..Len(q) PROVE r[j] = s[j]
  <2>1. j \in 1..(Len(q) + Len(p)) /\ j \in 1..(Len(q) + Len(t)) /\ j <= Len(q) BY <1>1, <1>6
  <2>2. QED BY <1>3, <1>5, <2>1
<1>10. ASSUME NEW j \in (Len(q) + 1)..Len(r) PROVE r[j] = s[j + 1]
  <2>1. /\ j \in 1..(Len(q) + Len(t)) /\ j + 1 \in 1..(Len(q) + Len(p))
        /\ ~(j <= Len(q)) /\ ~(j + 1 <= Len(q)) /\ (j + 1) - Len(q) = (j - Len(q)) + 1
        /\ j - Len(q) \in 1..Len(t)
    BY <1>1, <1>3, <1>6
  <2>2. r[j] = t[j - Len(q)] BY <1>3, <2>1
  <2>3. s[j + 1] = p[(j + 1) - Len(q)] BY <1>5, <2>1
  <2>4. QED BY <1>1, <2>1, <2>2, <2>3
<1>11. (Len(q) + 1) - 1 = Len(q) BY <1>6
<1>12. QED BY <1>1, <1>2, <1>4, <1>7, <1>8, <1>9, <1>10, <1>11

(* The reader goroutine: what it hands over is still under way, what finds *)
(* the channel full is not, and a start lost so is missed.                 *)
LEMMA ReadStep == ASSUME StreamInv, Read PROVE StreamInv'
<1> USE DEF StreamInv
<1>1. /\ ring # <<>> /\ ring' = Tail(ring)
      /\ UNCHANGED <<socket, opened, moved, calls, captured, epoch, streams, named>>
  BY DEF Read, kernel
<1>2. ring \in Seq(Chunks) /\ channel \in Seq(Chunks) BY DEF UserType
<1>3. PICK c \in Chunks : c = Head(ring) BY <1>1, <1>2, HeadTailProperties
<1>4. KernelType' BY <1>1 DEF KernelType
<1>5. Entries'
  <2>1. ASSUME NEW h \in Keys PROVE Entry(h)' BY <1>1, EntrySame DEF Entries
  <2>2. QED BY <2>1 DEF Entries
<1>6. Parsed' /\ OneSocketInARow' BY <1>1 DEF Parsed, OneSocketInARow
<1>7. \A h \in Keys : Begun(h)' => Begun(h) BY <1>1 DEF Begun
<1>8. Tail(ring) \in Seq(Chunks) BY <1>1, <1>2, HeadTailProperties
<1>9. CASE Len(channel) < ChanSize
  <2>1. channel' = Append(channel, c) /\ missed' = missed BY <1>3, <1>9 DEF Read
  <2>2. Flight' = Flight BY <1>1, <1>2, <1>3, <2>1, HeadMoved DEF Flight
  <2>3. UserType' BY <1>1, <1>2, <1>8, <2>1, AppendProperties DEF UserType
  <2>4. Chain(Flight, streams, missed)' BY <1>1, <2>1, <2>2 DEF Chain
  <2>5. Starts' BY <1>1, <1>7, <2>1, <2>2 DEF Starts
  <2>6. QED BY <1>4, <1>5, <1>6, <2>3, <2>4, <2>5
<1>10. CASE ~(Len(channel) < ChanSize)
  <2>1. /\ channel' = channel
        /\ missed' = IF c.offset = 0 THEN missed \cup {<<c.key, c.epoch>>} ELSE missed
    BY <1>3, <1>10 DEF Read
  <2>2. UserType' BY <1>1, <1>8, <2>1 DEF UserType
  <2>3. PICK q \in Seq(Chunks) : q = Flight BY <1>2, ConcatProperties DEF Flight
  <2>4. PICK p \in Seq(Chunks) : p = channel \o Tail(ring) BY <1>2, <1>8, ConcatProperties
  <2>5. Flight' = p BY <1>1, <2>1, <2>4 DEF Flight
  <2>6. PICK m \in 1..Len(q) :
          /\ q[m] = c /\ Len(p) = Len(q) - 1
          /\ \A j \in 1..(m - 1) : p[j] = q[j]
          /\ \A j \in m..Len(p) : p[j] = q[j + 1]
    <3>1. PICK m : m = Len(channel) + 1 OBVIOUS
    <3>2. /\ m \in 1..Len(channel \o ring) /\ (channel \o ring)[m] = Head(ring)
          /\ Len(channel \o Tail(ring)) = Len(channel \o ring) - 1
          /\ \A j \in 1..(m - 1) : (channel \o Tail(ring))[j] = (channel \o ring)[j]
          /\ \A j \in m..Len(channel \o Tail(ring)) :
               (channel \o Tail(ring))[j] = (channel \o ring)[j + 1]
      BY <1>1, <1>2, <3>1, HeadDropped
    <3>3. q = channel \o ring BY <2>3 DEF Flight
    <3>4. QED BY <1>3, <2>4, <3>2, <3>3
  <2>7. Len(q) \in Nat /\ Len(p) \in Nat BY LenProperties
  <2>8. ASSUME NEW k, NEW e, NEW i \in Nat, i # m, i <= Len(q) + 1, <<k, e>> \notin missed',
               Announced(q, streams, k, e, i)
        PROVE  Announced(p, streams, k, e, IF i < m THEN i ELSE i - 1)
    <3>1. ~(q[m].key = k /\ q[m].offset = 0 /\ q[m].epoch = e) BY <2>1, <2>6, <2>8
    <3>2. QED BY <2>6, <2>8, <3>1, AnnouncedWithout
  <2>9. ASSUME NEW i \in 1..Len(p)
        PROVE  /\ Sound(p[i])
               /\ p[i].offset # 0 /\ <<p[i].key, p[i].epoch>> \notin missed' =>
                    Announced(p, streams, p[i].key, p[i].epoch, i)
    <3>1. PICK j \in 1..Len(q) : p[i] = q[j] /\ j # m /\ i = IF j < m THEN j ELSE j - 1
      <4>1. CASE i < m
        <5>1. i \in 1..Len(q) /\ i \in 1..(m - 1) BY <2>6, <2>7, <4>1
        <5>2. QED BY <2>6, <4>1, <5>1
      <4>2. CASE ~(i < m)
        <5>1. i \in m..Len(p) /\ i + 1 \in 1..Len(q) /\ i + 1 # m /\ ~(i + 1 < m) /\ i = (i + 1) - 1
          BY <2>6, <2>7, <4>2
        <5>2. QED BY <2>6, <5>1
      <4>3. QED BY <4>1, <4>2
    <3>2. /\ Sound(q[j])
          /\ q[j].offset # 0 /\ <<q[j].key, q[j].epoch>> \notin missed =>
               Announced(q, streams, q[j].key, q[j].epoch, j)
      BY <2>3 DEF Chain
    <3>3. j \in Nat /\ j <= Len(q) + 1 BY <2>7
    <3>4. missed \subseteq missed' BY <2>1
    <3>5. ASSUME p[i].offset # 0, <<p[i].key, p[i].epoch>> \notin missed'
          PROVE  Announced(p, streams, p[i].key, p[i].epoch, i)
      <4>1. Announced(q, streams, q[j].key, q[j].epoch, j) BY <3>1, <3>2, <3>4, <3>5
      <4>2. <<q[j].key, q[j].epoch>> \notin missed' BY <3>1, <3>5
      <4>3. Announced(p, streams, q[j].key, q[j].epoch, IF j < m THEN j ELSE j - 1)
        BY <2>8, <3>1, <3>3, <4>1, <4>2
      <4>4. QED BY <3>1, <4>3
    <3>6. QED BY <3>1, <3>2, <3>5
  <2>10. Chain(Flight, streams, missed)' BY <1>1, <2>5, <2>9 DEF Chain
  <2>11. ASSUME NEW k \in Keys, Begun(k)', <<k, epoch[k]>> \notin missed'
         PROVE  Announced(p, streams, k, epoch[k], Len(p) + 1)
    <3>1. Begun(k) /\ <<k, epoch[k]>> \notin missed BY <1>7, <2>1, <2>11
    <3>2. Announced(q, streams, k, epoch[k], Len(q) + 1) BY <2>3, <3>1 DEF Starts
    <3>3. Len(q) + 1 \in Nat /\ Len(q) + 1 # m /\ ~(Len(q) + 1 < m) /\ (Len(q) + 1) - 1 = Len(p) + 1
      BY <2>6, <2>7
    <3>4. QED BY <2>8, <2>11, <3>2, <3>3
  <2>12. Starts' BY <1>1, <2>5, <2>11 DEF Starts
  <2>13. QED BY <1>4, <1>5, <1>6, <2>2, <2>10, <2>12
<1>11. QED BY <1>9, <1>10

(***************************************************************************)
(* Steps of the main loop.                                                 *)
(***************************************************************************)
LEMMA LeastNatural ==
  ASSUME NEW Ns, Ns \subseteq Nat, Ns # {}
  PROVE  \E n \in Ns : \A m \in Ns : n <= m
<1> DEFINE Up == {1..n : n \in Ns}
<1>1. Up \subseteq FiniteSubsetsOf(Nat) /\ Up # {}
  <2>1. ASSUME NEW n \in Ns PROVE 1..n \in FiniteSubsetsOf(Nat)
    BY FS_Interval DEF FiniteSubsetsOf
  <2>2. QED BY <2>1
<1>2. IsWellFoundedOn(StrictSubsetOrdering(Nat), FiniteSubsetsOf(Nat))
  BY FS_StrictSubsetOrderingWellFounded
<1> HIDE DEF Up
<1>3. PICK s \in Up : \A t \in Up : ~(<<t, s>> \in StrictSubsetOrdering(Nat))
  BY <1>1, <1>2, WFMin
<1>4. PICK n \in Ns : s = 1..n BY DEF Up
<1>5. ASSUME NEW m \in Ns PROVE n <= m
  <2>1. 1..m \in Up BY DEF Up
  <2>2. ASSUME m < n PROVE FALSE
    <3>1. 1..m \subseteq 1..n /\ n \in 1..n /\ n \notin 1..m BY <2>2
    <3>2. <<1..m, 1..n>> \in StrictSubsetOrdering(Nat) BY <3>1 DEF StrictSubsetOrdering
    <3>3. QED BY <1>3, <1>4, <2>1, <3>2
  <2>3. QED BY <2>2
<1>6. QED BY <1>5

(* The bytes before the first gap. *)
LEMMA PrefixRead ==
  ASSUME NEW s \in Streams
  PROVE  \E n \in 0..Budget : /\ \A o \in 0..(n - 1) : s.bytes[o] # <<>>
                              /\ prefix(s) = [o \in 1..n |-> s.bytes[o - 1]]
<1> DEFINE Ns == {n \in 0..Budget : n = Budget \/ s.bytes[n] = <<>>}
           P(n) == (\A o \in 0..(n - 1) : s.bytes[o] # <<>>) /\ (n = Budget \/ s.bytes[n] = <<>>)
<1>1. Budget \in Nat BY BudgetAssumption
<1>2. Budget \in Ns /\ Ns \subseteq Nat BY <1>1
<1>3. PICK n \in Ns : \A m \in Ns : n <= m
  <2> HIDE DEF Ns
  <2>1. Ns # {} BY <1>2
  <2>2. QED BY <1>2, <2>1, LeastNatural
<1>4. n \in 0..Budget OBVIOUS
<1>5. ASSUME NEW o \in 0..(n - 1) PROVE s.bytes[o] # <<>>
  <2>1. o \in 0..Budget /\ ~(n <= o) BY <1>1, <1>4
  <2>2. QED BY <1>3, <2>1
<1>6. P(n) BY <1>5
<1>7. PICK l : l = CHOOSE n_1 \in 0..Budget : P(n_1) OBVIOUS
<1>8. l \in 0..Budget /\ P(l) BY <1>4, <1>6, <1>7
<1>9. prefix(s) = [o \in 1..l |-> s.bytes[o - 1]] BY <1>7 DEF prefix
<1>10. QED BY <1>8, <1>9

LEMMA TailTaken ==
  ASSUME NEW q \in Seq(Chunks), NEW p \in Seq(Chunks), q # <<>>
  PROVE  /\ q \o p \in Seq(Chunks) /\ q \o p # <<>>
         /\ Tail(q) \o p = Tail(q \o p) /\ (q \o p)[1] = Head(q)
<1>1. PICK s \in Seq(Chunks) : s = q \o p BY ConcatProperties
<1>2. Len(s) = Len(q) + Len(p)
      /\ \A i \in 1..(Len(q) + Len(p)) : s[i] = IF i <= Len(q) THEN q[i] ELSE p[i - Len(q)]
  BY <1>1, ConcatProperties
<1>3. Len(q) \in Nat /\ Len(p) \in Nat /\ Len(q) > 0 BY LenProperties, EmptySeq
<1>4. s # <<>> BY <1>2, <1>3, EmptySeq
<1>5. PICK t \in Seq(Chunks) : t = Tail(q) BY HeadTailProperties
<1>6. Len(t) = Len(q) - 1 /\ \A i \in 1..Len(t) : t[i] = q[i + 1] BY <1>5, HeadTailProperties
<1>7. PICK w \in Seq(Chunks) : w = Tail(s) BY <1>4, HeadTailProperties
<1>8. Len(w) = Len(s) - 1 /\ \A i \in 1..Len(w) : w[i] = s[i + 1] BY <1>4, <1>7, HeadTailProperties
<1>9. PICK r \in Seq(Chunks) : r = t \o p BY ConcatProperties
<1>10. Len(r) = Len(t) + Len(p)
       /\ \A i \in 1..(Len(t) + Len(p)) : r[i] = IF i <= Len(t) THEN t[i] ELSE p[i - Len(t)]
  BY <1>9, ConcatProperties
<1>11. Len(r) = Len(w) BY <1>2, <1>3, <1>6, <1>8, <1>10
<1>12. ASSUME NEW i \in 1..Len(r) PROVE r[i] = w[i]
  <2>1. i \in 1..(Len(t) + Len(p)) /\ i + 1 \in 1..(Len(q) + Len(p)) /\ i \in 1..Len(w)
    BY <1>3, <1>6, <1>10, <1>11
  <2>2. w[i] = s[i + 1] BY <1>8, <2>1
  <2>3. CASE i <= Len(t)
    <3>1. i + 1 <= Len(q) /\ i \in 1..Len(t) BY <1>3, <1>6, <2>3
    <3>2. r[i] = t[i] BY <1>10, <2>1, <2>3
    <3>3. s[i + 1] = q[i + 1] BY <1>2, <2>1, <3>1
    <3>4. QED BY <1>6, <2>2, <3>1, <3>2, <3>3
  <2>4. CASE ~(i <= Len(t))
    <3>1. ~(i + 1 <= Len(q)) /\ (i + 1) - Len(q) = i - Len(t) BY <1>3, <1>6, <2>4
    <3>2. r[i] = p[i - Len(t)] BY <1>10, <2>1, <2>4
    <3>3. s[i + 1] = p[(i + 1) - Len(q)] BY <1>2, <2>1, <3>1
    <3>4. QED BY <2>2, <3>1, <3>2, <3>3
  <2>5. QED BY <2>3, <2>4
<1>13. r = w BY <1>11, <1>12, SeqEqual
<1>14. s[1] = Head(q)
  <2>1. 1 <= Len(q) /\ 1 \in 1..(Len(q) + Len(p)) BY <1>3
  <2>2. s[1] = q[1] BY <1>2, <2>1
  <2>3. QED BY <2>2, HeadTailProperties
<1>15. QED BY <1>1, <1>4, <1>5, <1>7, <1>9, <1>13, <1>14

(* What a chunk adds to the stream of its key. *)
LEMMA Fed ==
  ASSUME streams \in [Keys -> Streams \cup {NoStream}], NEW c \in Chunks
  PROVE  LET old == IF startsOver(c) THEN fresh(c) ELSE streams[c.key] IN
         /\ fed(c) \in Streams
         /\ fed(c).of = old.of /\ fed(c).epoch = old.epoch
         /\ fed(c).trusted => old.trusted /\ <<c.key, c.epoch>> \notin missed
         /\ \A o \in 0..(Budget - 1) :
              \/ fed(c).bytes[o] = old.bytes[o]
              \/ \E i \in 1..Len(c.data) : o = c.offset + i - 1 /\ fed(c).bytes[o] = c.data[i]
<1>1. /\ c.key \in Keys /\ c.offset \in Nat /\ c.data \in Seq(Bytes) /\ c.of \in Nat
      /\ c.epoch \in Epochs
  BY DEF Chunks
<1>2. Len(c.data) \in Nat /\ \A i \in 1..Len(c.data) : c.data[i] \in Bytes BY <1>1, LenProperties
<1>3. fresh(c) \in Streams BY <1>1 DEF fresh, Streams
<1>4. ~startsOver(c) => streams[c.key] \in Streams BY <1>1 DEF startsOver, NoStream
<1>5. PICK old \in Streams : old = IF startsOver(c) THEN fresh(c) ELSE streams[c.key] BY <1>3, <1>4
<1>6. PICK new : new = [o \in 0..(Budget - 1) |->
         IF old.bytes[o] = <<>> /\ o \in c.offset..(c.offset + Len(c.data) - 1)
         THEN c.data[o - c.offset + 1] ELSE old.bytes[o]]
  OBVIOUS
<1>7. old.bytes \in [0..(Budget - 1) -> Bytes \cup {<<>>}] BY DEF Streams
<1>8. ASSUME NEW o \in 0..(Budget - 1)
      PROVE  /\ new[o] \in Bytes \cup {<<>>}
             /\ \/ new[o] = old.bytes[o]
                \/ \E i \in 1..Len(c.data) : o = c.offset + i - 1 /\ new[o] = c.data[i]
  <2>1. CASE old.bytes[o] = <<>> /\ o \in c.offset..(c.offset + Len(c.data) - 1)
    <3>1. PICK i \in 1..Len(c.data) : i = o - c.offset + 1 BY <1>1, <1>2, <2>1
    <3>2. o = c.offset + i - 1 BY <1>1, <3>1
    <3>3. new[o] = c.data[i] BY <1>6, <2>1, <3>1
    <3>4. QED BY <1>2, <3>2, <3>3
  <2>2. CASE ~(old.bytes[o] = <<>> /\ o \in c.offset..(c.offset + Len(c.data) - 1))
    <3>1. new[o] = old.bytes[o] BY <1>6, <2>2
    <3>2. QED BY <1>7, <3>1
  <2>3. QED BY <2>1, <2>2
<1>9. new \in [0..(Budget - 1) -> Bytes \cup {<<>>}] BY <1>6, <1>8
<1>10. PICK t \in BOOLEAN : t = (old.trusted /\ <<c.key, c.epoch>> \notin missed) OBVIOUS
<1>11. fed(c) = [old EXCEPT !.trusted = t, !.bytes = new]
  BY <1>5, <1>6, <1>10 DEF fed, Streams
<1>12. PICK s \in Streams : /\ s = [old EXCEPT !.trusted = t, !.bytes = new]
                            /\ s.of = old.of /\ s.epoch = old.epoch /\ s.trusted = t /\ s.bytes = new
  <2>1. [old EXCEPT !.trusted = t, !.bytes = new] \in Streams BY <1>9 DEF Streams
  <2>2. /\ [old EXCEPT !.trusted = t, !.bytes = new].of = old.of
        /\ [old EXCEPT !.trusted = t, !.bytes = new].epoch = old.epoch
        /\ [old EXCEPT !.trusted = t, !.bytes = new].trusted = t
        /\ [old EXCEPT !.trusted = t, !.bytes = new].bytes = new
    BY DEF Streams
  <2>3. QED BY <2>1, <2>2
<1>13. /\ s \in Streams /\ s.of = old.of /\ s.epoch = old.epoch
       /\ s.trusted => old.trusted /\ <<c.key, c.epoch>> \notin missed
       /\ \A o \in 0..(Budget - 1) :
            \/ s.bytes[o] = old.bytes[o]
            \/ \E i \in 1..Len(c.data) : o = c.offset + i - 1 /\ s.bytes[o] = c.data[i]
  BY <1>8, <1>10, <1>12
<1>14. fed(c) = s BY <1>11, <1>12
<1>15. QED BY <1>5, <1>13, <1>14

LEMMA AddStep == ASSUME StreamInv, add PROVE StreamInv'
<1> USE DEF StreamInv
<1>1. /\ channel # <<>> /\ channel' = Tail(channel)
      /\ UNCHANGED <<socket, opened, moved, calls, captured, epoch, ring, missed>>
  BY DEF add, kernel
<1>2. ring \in Seq(Chunks) /\ channel \in Seq(Chunks) BY DEF UserType
<1>3. PICK c \in Chunks : c = Head(channel) BY <1>1, <1>2, HeadTailProperties
<1>4. PICK q \in Seq(Chunks) : q = Flight /\ q # <<>> BY <1>1, <1>2, TailTaken DEF Flight
<1>5. q[1] = c /\ Flight' = Tail(q) BY <1>1, <1>2, <1>3, <1>4, TailTaken DEF Flight
<1>6. PICK p \in Seq(Chunks) : p = Tail(q) BY <1>4, HeadTailProperties
<1>7. Len(p) = Len(q) - 1 /\ Len(q) \in Nat /\ Len(q) > 0 /\ \A i \in 1..Len(p) : p[i] = q[i + 1]
  BY <1>4, <1>6, HeadTailProperties, LenProperties, EmptySeq
<1>8. KernelType' BY <1>1 DEF KernelType
<1>9. Entries'
  <2>1. ASSUME NEW h \in Keys PROVE Entry(h)' BY <1>1, EntrySame DEF Entries
  <2>2. QED BY <2>1 DEF Entries
<1>10. c.key \in Keys /\ c.protocol \in Protocols /\ c.epoch \in Epochs /\ c.data \in Seq(Bytes)
       /\ c.offset \in Nat
  BY DEF Chunks
<1>11. Sound(c)
  <2>1. 1 \in 1..Len(q) BY <1>7
  <2>2. Sound(q[1]) BY <1>4, <2>1 DEF Chain
  <2>3. QED BY <1>5, <2>2
<1>12. c.offset # 0 /\ <<c.key, c.epoch>> \notin missed =>
         streams[c.key].of = 0 \/ streams[c.key].epoch = c.epoch
  <2>1. 1 \in 1..Len(q) BY <1>7
  <2>2. c.offset # 0 /\ <<c.key, c.epoch>> \notin missed => Announced(q, streams, c.key, c.epoch, 1)
    BY <1>4, <1>5, <2>1 DEF Chain
  <2>3. Announced(q, streams, c.key, c.epoch, 1) => streams[c.key].of = 0 \/ streams[c.key].epoch = c.epoch
    BY DEF Announced
  <2>4. QED BY <2>2, <2>3
<1>13. PICK old : old = IF startsOver(c) THEN fresh(c) ELSE streams[c.key] OBVIOUS
<1>14. PICK s \in Streams :
         /\ s = fed(c) /\ s.of = old.of /\ s.epoch = old.epoch
         /\ s.trusted => old.trusted /\ <<c.key, c.epoch>> \notin missed
         /\ \A o \in 0..(Budget - 1) :
              \/ s.bytes[o] = old.bytes[o]
              \/ \E i \in 1..Len(c.data) : o = c.offset + i - 1 /\ s.bytes[o] = c.data[i]
  <2>1. streams \in [Keys -> Streams \cup {NoStream}] BY DEF UserType
  <2>2. QED BY <1>13, <2>1, Fed
(* A stream that starts over is the chunk's; one that goes on is of its entry. *)
<1>15. startsOver(c) => s.of = c.of /\ s.epoch = c.epoch BY <1>13, <1>14 DEF fresh
<1>16. ~startsOver(c) => /\ c.offset # 0 /\ old = streams[c.key] /\ streams[c.key].of # 0
                         /\ Honest(old) /\ s.of = streams[c.key].of /\ s.epoch = streams[c.key].epoch
  BY <1>10, <1>13, <1>14 DEF startsOver, Parsed
<1>17. s.trusted => s.epoch = c.epoch /\ s.of = c.of /\ s.epoch.of = s.of
  <2>1. CASE startsOver(c) BY <1>11, <1>15, <2>1 DEF Sound
  <2>2. CASE ~startsOver(c)
    <3>1. s.trusted => s.epoch = c.epoch BY <1>12, <1>14, <1>16, <2>2
    <3>2. QED BY <1>11, <1>16, <2>2, <3>1 DEF Sound, Honest
  <2>3. QED BY <2>1, <2>2
<1>18. s.epoch.of = s.of
  <2>1. CASE startsOver(c) BY <1>11, <1>15, <2>1 DEF Sound
  <2>2. CASE ~startsOver(c) BY <1>16, <2>2 DEF Honest
  <2>3. QED BY <2>1, <2>2
<1>19. Honest(s)
  <2>1. ASSUME s.trusted, s.epoch.protocol = 6, NEW o \in 0..(Budget - 1), s.bytes[o] # <<>>
        PROVE  s.bytes[o] = <<s.of, s.epoch.first + o>>
    <3>1. CASE \E i \in 1..Len(c.data) : o = c.offset + i - 1 /\ s.bytes[o] = c.data[i]
      <4>1. PICK i \in 1..Len(c.data) : o = c.offset + i - 1 /\ s.bytes[o] = c.data[i] BY <3>1
      <4>2. c.protocol = 6 /\ s.epoch = c.epoch /\ s.of = c.of BY <1>11, <1>17, <2>1 DEF Sound
      <4>3. c.data[i] = <<c.of, c.epoch.first + c.offset + i - 1>> BY <1>11, <4>2 DEF Sound
      <4>4. c.epoch.first + c.offset + i - 1 = c.epoch.first + o
        BY <1>10, <4>1, LenProperties DEF Epochs
      <4>5. QED BY <4>1, <4>2, <4>3, <4>4
    <3>2. CASE s.bytes[o] = old.bytes[o]
      <4>1. CASE startsOver(c)
        <5>1. old.bytes[o] = <<>> BY <1>13, <4>1 DEF fresh
        <5>2. QED BY <2>1, <3>2, <5>1
      <4>2. CASE ~startsOver(c)
        <5>1. old.trusted /\ old.epoch = s.epoch /\ old.of = s.of BY <1>14, <2>1
        <5>2. QED BY <1>16, <2>1, <3>2, <4>2, <5>1 DEF Honest
      <4>3. QED BY <4>1, <4>2
    <3>3. QED BY <1>14, <3>1, <3>2
  <2>2. QED BY <1>18, <2>1 DEF Honest
<1>20. \/ UNCHANGED <<streams, named>> /\ streams[c.key].of = 0
       \/ /\ streams' = [streams EXCEPT ![c.key] = s]
          /\ \/ named' = NoStream
             \/ \E read : /\ named' = [of |-> s.of, trusted |-> s.trusted, read |-> read]
                          /\ read = IF c.protocol = 17 THEN c.data ELSE prefix(s)
  BY <1>3, <1>14 DEF add
<1>21. UserType'
  <2>1. channel' \in Seq(Chunks) BY <1>1, <1>2, HeadTailProperties
  <2>2. streams' \in [Keys -> Streams \cup {NoStream}] BY <1>20 DEF UserType
  <2>3. QED BY <1>1, <2>1, <2>2 DEF UserType
<1>22. \A k \in Keys : streams'[k] = streams[k] \/ (k = c.key /\ streams'[k] = s)
  BY <1>20 DEF UserType
<1>23. Parsed' BY <1>19, <1>22 DEF Parsed, Honest
<1>24. OneSocketInARow'
  <2>1. CASE UNCHANGED named BY <2>1 DEF OneSocketInARow
  <2>2. CASE named' = NoStream BY <2>2 DEF OneSocketInARow
  <2>3. ASSUME NEW read, named' = [of |-> s.of, trusted |-> s.trusted, read |-> read],
               read = IF c.protocol = 17 THEN c.data ELSE prefix(s)
        PROVE  OneSocketInARow'
    <3>1. SUFFICES ASSUME s.trusted, NEW i \in DOMAIN read
                   PROVE  read[i] = <<s.of, read[1][2] + i - 1>>
      BY <2>3 DEF OneSocketInARow
    <3>2. CASE c.protocol = 17
      <4>1. read = c.data /\ i \in 1..Len(c.data) BY <1>10, <2>3, <3>1, <3>2, LenProperties
      <4>2. QED BY <1>11, <1>17, <3>1, <4>1 DEF Sound
    <3>3. CASE c.protocol # 17
      <4>1. PICK n \in 0..Budget : /\ \A o \in 0..(n - 1) : s.bytes[o] # <<>>
                                   /\ read = [o \in 1..n |-> s.bytes[o - 1]]
        BY <2>3, <3>3, PrefixRead
      <4>2. Budget \in Nat /\ s.epoch.first \in Nat BY BudgetAssumption DEF Streams, Epochs
      <4>3. s.epoch.protocol = 6 BY <1>10, <1>11, <1>17, <3>1, <3>3 DEF Sound, Protocols
      <4>4. ASSUME NEW o \in 1..n PROVE read[o] = <<s.of, s.epoch.first + (o - 1)>>
        <5>1. o - 1 \in 0..(n - 1) /\ o - 1 \in 0..(Budget - 1) BY <4>2
        <5>2. s.bytes[o - 1] # <<>> BY <4>1, <5>1
        <5>3. s.bytes[o - 1] = <<s.of, s.epoch.first + (o - 1)>> BY <1>19, <3>1, <4>3, <5>1, <5>2 DEF Honest
        <5>4. QED BY <4>1, <5>3
      <4>5. i \in 1..n /\ 1 \in 1..n BY <3>1, <4>1
      <4>6. read[1] = <<s.of, s.epoch.first>> BY <4>2, <4>4, <4>5
      <4>7. s.epoch.first + (i - 1) = s.epoch.first + i - 1 BY <4>2, <4>5
      <4>8. read[i] = <<s.of, s.epoch.first + (i - 1)>> BY <4>4, <4>5
      <4>9. read[1][2] = s.epoch.first BY <4>6
      <4>10. QED BY <4>7, <4>8, <4>9
    <3>4. QED BY <3>2, <3>3
  <2>4. QED BY <1>20, <2>1, <2>2, <2>3
(* What is still under way finds what it found. *)
<1>25. ASSUME NEW k \in Keys, NEW e, NEW i \in Nat, i >= 2, i <= Len(q) + 1,
              Announced(q, streams, k, e, i)
       PROVE  Announced(p, streams', k, e, i - 1)
  <2>1. IF k # q[1].key THEN streams'[k] = streams[k]
        ELSE \/ streams'[k].of = 0
             \/ streams'[k].epoch = q[1].epoch
             \/ q[1].offset # 0 /\ streams'[k].epoch = streams[k].epoch /\ streams[k].of # 0
    <3>1. CASE k # c.key BY <1>5, <1>22, <3>1
    <3>2. CASE k = c.key /\ streams' = [streams EXCEPT ![c.key] = s]
      <4>1. streams'[k] = s BY <3>2 DEF UserType
      <4>2. QED BY <1>5, <1>15, <1>16, <3>2, <4>1
    <3>3. CASE k = c.key /\ UNCHANGED streams /\ streams[c.key].of = 0 BY <1>5, <3>3
    <3>4. QED BY <1>20, <3>1, <3>2, <3>3
  <2>2. QED BY <1>4, <1>6, <1>25, <2>1, AnnouncedAfter
<1>26. Chain(Flight, streams, missed)'
  <2>1. ASSUME NEW i \in 1..Len(p)
        PROVE  /\ Sound(p[i])
               /\ p[i].offset # 0 /\ <<p[i].key, p[i].epoch>> \notin missed =>
                    Announced(p, streams', p[i].key, p[i].epoch, i)
    <3>1. p[i] = q[i + 1] /\ i + 1 \in 1..Len(q) /\ i + 1 \in Nat /\ i + 1 >= 2
          /\ i + 1 <= Len(q) + 1 /\ (i + 1) - 1 = i
      BY <1>7
    <3>2. /\ Sound(q[i + 1])
          /\ q[i + 1].offset # 0 /\ <<q[i + 1].key, q[i + 1].epoch>> \notin missed =>
               Announced(q, streams, q[i + 1].key, q[i + 1].epoch, i + 1)
      BY <1>4, <3>1 DEF Chain
    <3>3. q[i + 1].key \in Keys
      <4>1. q[i + 1] \in Chunks BY <3>1, LenProperties
      <4>2. QED BY <4>1 DEF Chunks
    <3>4. QED BY <1>25, <3>1, <3>2, <3>3
  <2>2. QED BY <1>1, <1>5, <1>6, <2>1 DEF Chain
<1>27. Starts'
  <2>1. ASSUME NEW k \in Keys, Begun(k), <<k, epoch[k]>> \notin missed
        PROVE  Announced(p, streams', k, epoch[k], Len(p) + 1)
    <3>1. Announced(q, streams, k, epoch[k], Len(q) + 1) BY <1>4, <2>1 DEF Starts
    <3>2. Len(q) + 1 \in Nat /\ Len(q) + 1 >= 2 /\ (Len(q) + 1) - 1 = Len(p) + 1 BY <1>7
    <3>3. QED BY <1>25, <3>1, <3>2
  <2>2. \A k \in Keys : Begun(k)' => Begun(k) BY <1>1 DEF Begun
  <2>3. QED BY <1>1, <1>5, <1>6, <2>1, <2>2 DEF Starts
<1>28. QED BY <1>8, <1>9, <1>21, <1>23, <1>24, <1>26, <1>27

LEMMA ExpireStep == ASSUME StreamInv, NEW k \in Keys, expire(k) PROVE StreamInv'
<1> USE DEF StreamInv
<1>1. /\ streams' = [streams EXCEPT ![k] = NoStream]
      /\ UNCHANGED <<socket, opened, moved, calls, captured, epoch, ring, channel, named, missed>>
  BY DEF expire, kernel
<1>2. KernelType' BY <1>1 DEF KernelType
<1>3. UserType' BY <1>1 DEF UserType
<1>4. Entries'
  <2>1. ASSUME NEW h \in Keys PROVE Entry(h)' BY <1>1, EntrySame DEF Entries
  <2>2. QED BY <2>1 DEF Entries
<1>5. \A h \in Keys : streams'[h] = streams[h] \/ streams'[h].of = 0
  BY <1>1 DEF UserType, NoStream
<1>6. Parsed' BY <1>5 DEF Parsed, Honest
<1>7. OneSocketInARow' BY <1>1 DEF OneSocketInARow
<1>8. PICK q \in Seq(Chunks) : q = Flight BY ConcatProperties DEF Flight, UserType
<1>9. Flight' = q BY <1>1, <1>8 DEF Flight
<1>10. ASSUME NEW h \in Keys, NEW e, NEW i, Announced(q, streams, h, e, i)
       PROVE  Announced(q, streams', h, e, i)
  BY <1>5, <1>10 DEF Announced
<1>11. Chain(Flight, streams, missed)'
  <2>1. ASSUME NEW i \in 1..Len(q) PROVE q[i].key \in Keys
    <3>1. q[i] \in Chunks BY LenProperties
    <3>2. QED BY <3>1 DEF Chunks
  <2>2. QED BY <1>1, <1>8, <1>9, <1>10, <2>1 DEF Chain
<1>12. Starts'
  <2>1. \A h \in Keys : Begun(h)' => Begun(h) BY <1>1 DEF Begun
  <2>2. QED BY <1>1, <1>8, <1>9, <1>10, <2>1 DEF Starts
<1>13. QED BY <1>2, <1>3, <1>4, <1>6, <1>7, <1>11, <1>12

LEMMA StreamInit == Init => StreamInv
<1> SUFFICES ASSUME Init PROVE StreamInv OBVIOUS
<1> USE DEF Init
<1>1. Forgotten \in 0..Forgotten /\ Forgotten > Budget BY BudgetAssumption DEF Forgotten
<1>2. NoEpoch \in Epochs BY DEF NoEpoch, Epochs, Protocols
<1>3. KernelType BY <1>1, <1>2 DEF KernelType, Protocols
<1>4. UserType BY DEF UserType
<1>5. ASSUME NEW k \in Keys PROVE Entry(k)
  <2>1. calls[k] = NoCall /\ captured[k] = Forgotten BY <1>5
  <2>2. QED BY <1>1, <2>1, Calls, BudgetAssumption DEF Entry
<1>6. Entries BY <1>5 DEF Entries
<1>7. Flight = <<>> /\ Len(<<>>) = 0 BY DEF Flight
<1>8. Chain(Flight, streams, missed) BY <1>7 DEF Chain
<1>9. \A k \in Keys : ~Begun(k) BY Calls DEF Begun
<1>10. Starts BY <1>9 DEF Starts
<1>11. Parsed BY DEF Parsed, NoStream
<1>12. OneSocketInARow BY DEF OneSocketInARow
<1>13. QED BY <1>3, <1>4, <1>6, <1>8, <1>10, <1>11, <1>12 DEF StreamInv

LEMMA StreamNext == StreamInv /\ [Next]_vars => StreamInv'
<1> SUFFICES ASSUME StreamInv, [Next]_vars PROVE StreamInv' OBVIOUS
<1>1. CASE UNCHANGED vars
  <2>1. UNCHANGED <<socket, opened, moved, calls, captured, ring, channel, streams, named, epoch,
                    missed>>
    BY <1>1 DEF vars
  <2>2. KernelType' BY <2>1 DEF StreamInv, KernelType
  <2>3. Entries'
    <3>1. ASSUME NEW h \in Keys PROVE Entry(h)' BY <2>1, EntrySame DEF StreamInv, Entries
    <3>2. QED BY <3>1 DEF Entries
  <2>4. \A k \in Keys : Begun(k)' => Begun(k) /\ epoch'[k] = epoch[k] BY <2>1 DEF Begun
  <2>5. QED BY <2>1, <2>2, <2>3, <2>4, Quiet DEF StreamInv
<1>2. CASE Next
  <2>1. \/ \E a \in Addresses : socket_freed(a) \/ \E p \in Protocols : OpenSocket(a, p)
        \/ \E k \in Keys :
             \/ Evict(k) \/ begin(k) \/ \E n \in 0..2 : Transfer(k, n)
             \/ readDone(k) \/ outputChunk(k) \/ countOffered(k)
             \/ \E quic \in BOOLEAN : finish_datagram(k, quic)
             \/ expire(k)
        \/ Read \/ add
    BY <1>2 DEF Next, Protocols
  <2>2. QED BY <2>1, SocketFreedStep, OpenSocketStep, EvictStep, BeginStep, TransferStep, ReadDoneStep,
               OutputChunkStep, CountOfferedStep, FinishDatagramStep, ExpireStep, ReadStep, AddStep
<1>3. QED BY <1>1, <1>2

(***************************************************************************)
(* The client bytes that name a socket's connection (socket_streams.go) are  *)
(* bytes of that socket, each once and in a row, for any number of sockets   *)
(* and addresses, any budget, chunk size and size of the ring, the channel   *)
(* and the table of streams.                                                *)
(***************************************************************************)
THEOREM BytesOfOneSocket == HostSpec => []OneSocketInARow
<1>1. HostInit => StreamInv BY StreamInit DEF HostInit
<1>2. StreamInv /\ [HostNext]_<<vars, tvars, trends>> => StreamInv'
  <2> SUFFICES ASSUME StreamInv, [HostNext]_<<vars, tvars, trends>> PROVE StreamInv' OBVIOUS
  <2>1. [Next]_vars BY DEF HostNext
  <2>2. QED BY <2>1, StreamNext
<1>3. StreamInv => OneSocketInARow BY DEF StreamInv
<1>4. QED BY <1>1, <1>2, <1>3, PTL DEF HostSpec

(***************************************************************************)
(* Trends: rings of samples.                                               *)
(***************************************************************************)
LEMMA RemainderOf ==
  ASSUME NEW s \in Nat \ {0}, NEW x \in Int, NEW q \in Int, NEW r \in 0..(s - 1), x = (q * s) + r
  PROVE  x % s = r
  OBVIOUS

(* The places of a ring are those up to its size; one round more comes back. *)
LEMMA Place ==
  ASSUME NEW x \in 0..(2 * Seconds - 1)
  PROVE  (x < Seconds => x % Seconds = x) /\ (x >= Seconds => x % Seconds = x - Seconds)
<1>1. Seconds \in Nat \ {0} BY TrendsAssumption
<1>2. CASE x < Seconds
  <2>1. x \in 0..(Seconds - 1) /\ x = (0 * Seconds) + x BY <1>1, <1>2
  <2>2. x % Seconds = x BY <1>1, <2>1, RemainderOf
  <2>3. ~(x >= Seconds) BY <1>1, <1>2
  <2>4. QED BY <2>2, <2>3
<1>3. CASE x >= Seconds
  <2>1. x - Seconds \in 0..(Seconds - 1) /\ x = (1 * Seconds) + (x - Seconds) BY <1>1, <1>3
  <2>2. x % Seconds = x - Seconds BY <1>1, <2>1, RemainderOf
  <2>3. ~(x < Seconds) BY <1>1, <1>3
  <2>4. QED BY <2>2, <2>3
<1>4. QED BY <1>1, <1>2, <1>3

TrendRing == [samples : [0..(Seconds - 1) -> Nat], count : Nat, newest : {-1} \cup 0..(Seconds - 1)]

(* A ring has the history h: its last samples, the newest first.           *)
Ages(h) == 0..(M!Lesser(Seconds, Len(h)) - 1)
Has(t, h) ==
  /\ t \in TrendRing /\ t.count = M!Lesser(Seconds, Len(h))
  /\ h # <<>> => t.newest # -1
  /\ \A age \in Ages(h) : M!at(t, age) = h[Len(h) - age]

LEMMA NewRingHasNothing == Has(M!NewRing, <<>>)
<1>1. Seconds \in Nat \ {0} BY TrendsAssumption
<1>2. M!NewRing \in TrendRing BY <1>1 DEF M!NewRing, TrendRing
<1>3. Len(<<>>) = 0 OBVIOUS
<1>4. M!Lesser(Seconds, 0) = 0 BY <1>1 DEF M!Lesser
<1>5. QED BY <1>2, <1>3, <1>4 DEF Has, Ages, M!NewRing

LEMMA AddToRing ==
  ASSUME NEW t, NEW h \in Seq(Nat), Has(t, h), NEW total \in Nat
  PROVE  Has(M!add(t, total), Append(h, M!Lesser(total, Largest)))
<1> DEFINE v == M!Lesser(total, Largest)
           place(x) == x % Seconds
           n == place(t.newest + 1)
           t2 == M!add(t, total)
           h2 == Append(h, v)
<1>1. Seconds \in Nat \ {0} /\ Largest \in Nat BY TrendsAssumption
<1>2. v \in Nat BY <1>1 DEF M!Lesser
<1>3. /\ t \in TrendRing /\ t.count = M!Lesser(Seconds, Len(h))
      /\ \A age \in Ages(h) : M!at(t, age) = h[Len(h) - age]
      /\ h # <<>> => t.newest # -1
  BY DEF Has
<1>4. /\ t.newest \in {-1} \cup 0..(Seconds - 1) /\ t.samples \in [0..(Seconds - 1) -> Nat] /\ t.count \in Nat
  BY <1>3 DEF TrendRing
<1>5. Len(h) \in Nat /\ h2 \in Seq(Nat) /\ Len(h2) = Len(h) + 1 /\ h2[Len(h) + 1] = v
      /\ \A i \in 1..Len(h) : h2[i] = h[i]
  BY <1>2
<1>6. t.newest + 1 \in 0..(2 * Seconds - 1) BY <1>1, <1>4
<1>7. \A x \in 0..(2 * Seconds - 1) :
         (x < Seconds => place(x) = x) /\ (x >= Seconds => place(x) = x - Seconds)
  BY Place
<1>8. \A r, age : M!at(r, age) = r.samples[place(r.newest - age + Seconds)]
  BY DEF M!at, place
<1> HIDE DEF place
<1>9. /\ t.newest + 1 < Seconds => n = t.newest + 1
      /\ t.newest + 1 >= Seconds => n = t.newest + 1 - Seconds
  BY <1>1, <1>4, <1>6, <1>7
<1>10. n \in 0..(Seconds - 1) BY <1>1, <1>4, <1>9
<1>11. t2 = [samples |-> [t.samples EXCEPT ![n] = v], count |-> M!counted(t.count), newest |-> n]
  BY DEF M!add, place
<1> HIDE DEF v, n
<1>12. t2.samples = [t.samples EXCEPT ![n] = v] /\ t2.newest = n /\ t2.count = M!counted(t.count)
  BY <1>11
<1>13. M!counted(t.count) \in Nat /\ M!counted(t.count) = M!Lesser(Seconds, Len(h) + 1)
  BY <1>1, <1>3, <1>4, <1>5 DEF M!counted, M!Lesser
<1>14. t2 \in TrendRing
  <2>1. [t.samples EXCEPT ![n] = v] \in [0..(Seconds - 1) -> Nat] BY <1>2, <1>4
  <2>2. QED BY <1>10, <1>11, <1>13, <2>1 DEF TrendRing
<1>15. ASSUME NEW age \in Ages(h2) PROVE M!at(t2, age) = h2[Len(h2) - age]
  <2>1. age \in 0..(Seconds - 1) /\ age <= Len(h) BY <1>1, <1>5 DEF Ages, M!Lesser
  <2>2. M!at(t2, age) = [t.samples EXCEPT ![n] = v][place(n - age + Seconds)] BY <1>12, <1>8
  <2>3. CASE age = 0
    <3>1. n - age + Seconds \in 0..(2 * Seconds - 1) /\ ~(n - age + Seconds < Seconds) /\ n - age + Seconds - Seconds = n
      BY <1>1, <1>10, <2>3
    <3>2. place(n - age + Seconds) = n BY <1>1, <1>10, <2>1, <3>1, <1>7
    <3>3. M!at(t2, age) = v BY <1>4, <1>10, <2>2, <3>2
    <3>4. Len(h2) - age = Len(h) + 1 BY <1>5, <2>3
    <3>5. QED BY <1>5, <3>3, <3>4
  <2>4. CASE age # 0
    <3>1. age - 1 \in Ages(h) /\ Len(h) > 0 BY <1>1, <1>5, <2>1, <2>4 DEF Ages, M!Lesser
    <3>2. t.newest \in 0..(Seconds - 1) BY <1>3, <1>4, <3>1
    <3>3. M!at(t, age - 1) = t.samples[place(t.newest - (age - 1) + Seconds)] BY <1>8
    <3>4. n - age + Seconds \in 0..(2 * Seconds - 1) /\ t.newest - (age - 1) + Seconds \in 0..(2 * Seconds - 1)
      BY <1>1, <1>10, <2>1, <2>4, <3>2
    <3>5. /\ n - age + Seconds < Seconds => place(n - age + Seconds) = n - age + Seconds
          /\ n - age + Seconds >= Seconds => place(n - age + Seconds) = n - age + Seconds - Seconds
      BY <1>1, <1>10, <2>1, <3>2, <3>4, <1>7
    <3>6. LET o == t.newest - (age - 1) + Seconds IN
          (o < Seconds => place(o) = o) /\ (o >= Seconds => place(o) = o - Seconds)
      BY <1>1, <1>10, <2>1, <3>2, <3>4, <1>7
    <3>7. /\ place(n - age + Seconds) = place(t.newest - (age - 1) + Seconds)
          /\ place(n - age + Seconds) # n /\ place(n - age + Seconds) \in 0..(Seconds - 1)
      <4>1. CASE t.newest + 1 < Seconds
        <5>1. n = t.newest + 1 BY <1>9, <4>1
        <5>2. n - age + Seconds = t.newest - (age - 1) + Seconds
          <6>1. PICK a \in Int : a = age BY <2>1
          <6>2. PICK m \in Int : m = t.newest BY <3>2
          <6>3. Seconds \in Int BY <1>1
          <6>4. m + 1 - a + Seconds = m - (a - 1) + Seconds BY <6>3
          <6>5. QED BY <5>1, <6>1, <6>2, <6>4
        <5>3. place(n - age + Seconds) # n /\ place(n - age + Seconds) \in 0..(Seconds - 1)
          BY <1>1, <1>10, <2>1, <2>4, <3>5
        <5>4. QED BY <5>2, <5>3
      <4>2. CASE ~(t.newest + 1 < Seconds)
        <5>1. t.newest = Seconds - 1 /\ n = 0 BY <1>1, <1>9, <3>2, <4>2
        <5>2. QED BY <1>1, <2>1, <2>4, <3>5, <3>6, <5>1
      <4>3. QED BY <4>1, <4>2
    <3>8. M!at(t2, age) = M!at(t, age - 1) BY <1>4, <2>2, <3>3, <3>7
    <3>9. M!at(t, age - 1) = h[Len(h) - (age - 1)] BY <1>3, <3>1
    <3>10. Len(h) - (age - 1) = Len(h2) - age /\ Len(h2) - age \in 1..Len(h)
      BY <1>5, <2>1, <2>4
    <3>11. QED BY <1>5, <3>8, <3>9, <3>10
  <2>5. QED BY <2>3, <2>4
<1>16. h2 # <<>> => t2.newest # -1 BY <1>10, <1>12
<1>17. QED BY <1>5, <1>12, <1>13, <1>14, <1>15, <1>16 DEF Has, v

(***************************************************************************)
(* The inductive invariant of the trends: who has a ring has its history in *)
(* it, who has none has no history.                                         *)
(***************************************************************************)
TrendsInv ==
  /\ todo \in Seq([row : Rows, total : Totals]) /\ past \in [Rows -> Seq(Nat)]
  /\ DOMAIN rings \subseteq Rows /\ DOMAIN unused \subseteq DOMAIN rings
  /\ \A r \in DOMAIN rings : past[r] # <<>> /\ Has(rings[r], past[r])
  /\ \A r \in Rows \ DOMAIN rings : past[r] = <<>>

LEMMA TrendsStart == M!Init => TrendsInv
<1> SUFFICES ASSUME M!Init PROVE TrendsInv OBVIOUS
<1>1. DOMAIN rings = {} /\ DOMAIN unused = {} BY DEF M!Init
<1>2. todo = <<>> /\ past = [r \in Rows |-> <<>>] BY DEF M!Init
<1>3. QED BY <1>1, <1>2 DEF TrendsInv

LEMMA TrendsPass == ASSUME TrendsInv, NEW rows \in M!Table, M!Pass(rows) PROVE TrendsInv'
<1>1. Cardinality(Rows) \in Nat BY TrendsAssumption, FS_CardinalityType
<1> DEFINE Each == [row : Rows, total : Totals]
<1>2. M!Table \subseteq UNION {[1..n -> Each] : n \in 0..Cardinality(Rows)}
  <2>1. M!Cardinality(Rows) = Cardinality(Rows) BY DEF M!Cardinality, Cardinality
  <2>2. QED BY <2>1 DEF M!Table
<1> HIDE DEF Each
<1>3. PICK n \in 0..Cardinality(Rows) : rows \in [1..n -> Each] BY <1>2
<1>4. rows \in Seq(Each)
  <2>1. n \in Nat BY <1>1
  <2>2. Seq(Each) = UNION {[1..k -> Each] : k \in Nat} BY SeqDef
  <2>3. QED BY <1>3, <2>1, <2>2
<1>5. UNCHANGED <<rings, unused, past>> /\ todo' = rows BY DEF M!Pass
<1>6. QED BY <1>4, <1>5 DEF TrendsInv, Each

LEMMA AddWithStep ==
  ASSUME TrendsInv, NEW r \in Rows, NEW total \in Totals, NEW dropped,
         r \notin dropped, M!AddWith(r, total, dropped),
         todo' \in Seq([row : Rows, total : Totals])
  PROVE  TrendsInv'
<1> DEFINE old == IF r \in DOMAIN rings THEN rings[r] ELSE M!NewRing
           v == M!Lesser(total, Largest)
           rest == M!Without(rings, dropped)
<1>1. total \in Nat /\ Largest \in Nat /\ v \in Nat BY TrendsAssumption DEF M!Lesser
<1>2. Has(old, past[r]) BY NewRingHasNothing DEF TrendsInv
<1>3. past[r] \in Seq(Nat) BY DEF TrendsInv
<1>4. Has(M!add(old, total), Append(past[r], v)) BY <1>1, <1>2, <1>3, AddToRing
<1>5. /\ rings' = [x \in DOMAIN rest \cup {r} |-> IF x = r THEN M!add(old, total) ELSE rest[x]]
      /\ unused' = M!Without(unused, dropped \cup {r})
      /\ past' = [x \in Rows |-> IF x \in dropped THEN <<>>
                                 ELSE IF x = r THEN Append(past[r], v) ELSE past[x]]
  BY DEF M!AddWith, M!With
<1> HIDE DEF old, v
<1>6. rest = [x \in DOMAIN rings \ dropped |-> rings[x]] BY DEF M!Without
<1> HIDE DEF rest
<1>7. Append(past[r], v) \in Seq(Nat) /\ Append(past[r], v) # <<>>
  <2>1. v \in Nat BY <1>1
  <2>2. QED BY <1>3, <2>1, AppendProperties
<1>8. past' \in [Rows -> Seq(Nat)] BY <1>5, <1>7 DEF TrendsInv
<1>9. DOMAIN rings' = (DOMAIN rings \ dropped) \cup {r} BY <1>5, <1>6
<1>10. DOMAIN unused' = DOMAIN unused \ (dropped \cup {r}) BY <1>5 DEF M!Without
<1>11. ASSUME NEW x \in DOMAIN rings' PROVE past'[x] # <<>> /\ Has(rings'[x], past'[x])
  <2>1. x \in Rows /\ x \notin dropped BY <1>9 DEF TrendsInv
  <2>2. CASE x = r
    <3>1. rings'[x] = M!add(old, total) /\ past'[x] = Append(past[r], v) BY <1>5, <2>1, <2>2
    <3>2. QED BY <1>4, <1>7, <3>1
  <2>3. CASE x # r
    <3>1. x \in DOMAIN rings /\ rings'[x] = rings[x] /\ past'[x] = past[x]
      BY <1>5, <1>6, <1>9, <2>1, <2>3
    <3>2. QED BY <3>1 DEF TrendsInv
  <2>4. QED BY <2>2, <2>3
<1>12. ASSUME NEW x \in Rows \ DOMAIN rings' PROVE past'[x] = <<>>
  <2>1. x # r /\ (x \in dropped \/ x \notin DOMAIN rings) BY <1>9
  <2>2. QED BY <1>5, <2>1 DEF TrendsInv
<1>13. DOMAIN rings' \subseteq Rows /\ DOMAIN unused' \subseteq DOMAIN rings'
  BY <1>9, <1>10 DEF TrendsInv
<1>14. QED BY <1>8, <1>11, <1>12, <1>13 DEF TrendsInv

LEMMA TrendsAdd == ASSUME TrendsInv, M!Add PROVE TrendsInv'
<1> DEFINE r == Head(todo).row
           total == Head(todo).total
<1>1. todo \in Seq([row : Rows, total : Totals]) /\ todo # <<>> BY DEF TrendsInv, M!Add
<1>2. r \in Rows /\ total \in Totals /\ Tail(todo) \in Seq([row : Rows, total : Totals])
  <2>1. Head(todo) \in [row : Rows, total : Totals] BY <1>1, HeadTailProperties
  <2>2. Tail(todo) \in Seq([row : Rows, total : Totals]) BY <1>1, HeadTailProperties
  <2>3. QED BY <2>1, <2>2
<1>3. todo' = Tail(todo) BY DEF M!Add
<1>4. \/ M!AddWith(r, total, {})
      \/ r \notin DOMAIN rings /\ \E x \in M!evictOldest : M!AddWith(r, total, {x})
  BY DEF M!Add
<1>5. ASSUME r \notin DOMAIN rings, NEW x \in M!evictOldest PROVE r \notin {x}
  BY <1>5 DEF M!evictOldest, TrendsInv
<1> HIDE DEF r, total
<1>6. ASSUME NEW dropped, r \notin dropped, M!AddWith(r, total, dropped) PROVE TrendsInv'
  <2>1. todo' \in Seq([row : Rows, total : Totals]) BY <1>2, <1>3
  <2>2. QED BY <1>2, <1>6, <2>1, AddWithStep
<1>7. CASE M!AddWith(r, total, {}) BY <1>6, <1>7
<1>8. CASE r \notin DOMAIN rings /\ \E x \in M!evictOldest : M!AddWith(r, total, {x})
  <2>1. PICK x \in M!evictOldest : M!AddWith(r, total, {x}) BY <1>8
  <2>2. r \notin {x} BY <1>5, <1>8
  <2>3. QED BY <1>6, <2>1, <2>2
<1>9. QED BY <1>4, <1>7, <1>8

LEMMA TrendsSweep == ASSUME TrendsInv, M!Sweep PROVE TrendsInv'
<1> DEFINE after == [r \in DOMAIN unused \cup M!marks |-> IF r \in M!marks THEN tick ELSE unused[r]]
           old == {r \in DOMAIN after : tick - after[r] >= Stale}
<1>1. PICK marked, dropped :
        /\ DOMAIN marked = DOMAIN unused \cup M!marks
        /\ rings' = M!Without(rings, dropped) /\ unused' = M!Without(marked, dropped)
        /\ past' = [r \in Rows |-> IF r \in dropped THEN <<>> ELSE past[r]]
        /\ UNCHANGED todo
  <2>1. /\ rings' = M!Without(rings, old) /\ unused' = M!Without(after, old)
        /\ past' = [r \in Rows |-> IF r \in old THEN <<>> ELSE past[r]]
        /\ UNCHANGED todo
    BY DEF M!Sweep
  <2>2. DOMAIN after = DOMAIN unused \cup M!marks OBVIOUS
  <2> HIDE DEF after, old
  <2>3. QED BY <2>1, <2>2
<1>2. rings' = [r \in DOMAIN rings \ dropped |-> rings[r]] BY <1>1 DEF M!Without
<1>3. DOMAIN unused' \subseteq DOMAIN rings'
  BY <1>1, <1>2 DEF TrendsInv, M!Without, M!marks
<1>4. past' \in [Rows -> Seq(Nat)] BY <1>1 DEF TrendsInv
<1>5. DOMAIN rings' \subseteq Rows BY <1>2 DEF TrendsInv
<1>6. ASSUME NEW r \in DOMAIN rings' PROVE past'[r] # <<>> /\ Has(rings'[r], past'[r])
  <2>1. r \in DOMAIN rings /\ r \in Rows /\ rings'[r] = rings[r] /\ past'[r] = past[r]
    BY <1>1, <1>2 DEF TrendsInv
  <2>2. QED BY <2>1 DEF TrendsInv
<1>7. \A r \in Rows \ DOMAIN rings' : past'[r] = <<>> BY <1>1, <1>2 DEF TrendsInv
<1>8. QED BY <1>1, <1>3, <1>4, <1>5, <1>6, <1>7 DEF TrendsInv

LEMMA TrendsInductive == ASSUME TrendsInv, [M!Next]_trends PROVE TrendsInv'
<1>1. CASE UNCHANGED trends BY <1>1 DEF trends, TrendsInv
<1>2. CASE M!Next BY <1>2, TrendsPass, TrendsAdd, TrendsSweep DEF M!Next
<1>3. QED BY <1>1, <1>2

(* A ring that has a history shows it.                                      *)
LEMMA RingsHaveHistory == TrendsInv => M!RingsAreHistory
  BY DEF TrendsInv, Has, Ages, M!RingsAreHistory, M!agesOf, M!sample

(***************************************************************************)
(* The curves drawn of the rings: cells, the highest of several samples and  *)
(* the rungs of the two.                                                     *)
(***************************************************************************)
LEMMA Quotient ==
  ASSUME NEW x \in Nat, NEW d \in Nat \ {0}
  PROVE  /\ x \div d \in Nat /\ (x \div d) * d <= x
         /\ x < ((x \div d) + 1) * d
  OBVIOUS

LEMMA QuotientBelow ==
  ASSUME NEW q \in Int, NEW x \in Int, NEW y \in Int, NEW p \in Int, NEW d \in Nat \ {0},
         q * d <= x, x <= y, y < (p + 1) * d
  PROVE  q <= p
<1>1. SUFFICES ASSUME p + 1 <= q PROVE FALSE OBVIOUS
<1>2. PICK k \in Nat : q = p + 1 + k
  <2>1. q - (p + 1) \in Nat /\ q = p + 1 + (q - (p + 1)) BY <1>1
  <2>2. QED BY <2>1
<1>3. q * d = (p + 1) * d + k * d BY <1>2
<1>4. k * d \in Nat BY <1>2
<1>5. (p + 1) * d \in Int /\ q * d \in Int OBVIOUS
<1>6. QED BY <1>3, <1>4, <1>5

LEMMA QuotientGrows ==
  ASSUME NEW x \in Nat, NEW y \in Nat, x <= y, NEW d \in Nat \ {0}
  PROVE  x \div d <= y \div d
<1>1. PICK q \in Nat : q = x \div d BY Quotient
<1>2. PICK p \in Nat : p = y \div d BY Quotient
<1>3. q * d <= x BY <1>1, Quotient
<1>4. y < (p + 1) * d BY <1>2, Quotient
<1>5. q <= p BY <1>3, <1>4, QuotientBelow
<1>6. QED BY <1>1, <1>2, <1>5

(* A sample is drawn in one of the cells.                                   *)
LEMMA CellOf ==
  ASSUME NEW width \in Nat \ {0}, NEW drawn \in Nat \ {0}, NEW age \in 0..(drawn - 1)
  PROVE  width - (age * width) \div drawn \in 1..width
<1>1. age * width \in Nat OBVIOUS
<1>2. PICK q \in Nat : q = (age * width) \div drawn BY <1>1, Quotient
<1>3. q * drawn <= age * width BY <1>1, <1>2, Quotient
<1>4. age * width < width * drawn
  <2>1. PICK k \in Nat : drawn = age + 1 + k
    <3>1. drawn - (age + 1) \in Nat /\ drawn = age + 1 + (drawn - (age + 1)) OBVIOUS
    <3>2. QED BY <3>1
  <2>2. width * drawn = age * width + width + k * width BY <2>1
  <2>3. k * width \in Nat BY <2>1
  <2>4. QED BY <1>1, <2>2, <2>3
<1>5. PICK p \in Nat : width = p + 1
  <2>1. width - 1 \in Nat /\ width = (width - 1) + 1 OBVIOUS
  <2>2. QED BY <2>1
<1>6. age * width < (p + 1) * drawn BY <1>4, <1>5
<1>7. q <= p BY <1>1, <1>3, <1>6, QuotientBelow
<1>8. QED BY <1>2, <1>5, <1>7

LEMMA HighestOf ==
  ASSUME NEW S \in SUBSET Nat, IsFiniteSet(S)
  PROVE  /\ M!Highest(S) \in Nat /\ \A x \in S : x <= M!Highest(S)
         /\ M!Highest(S) # 0 => M!Highest(S) \in S
<1>1. CASE S = {} BY <1>1 DEF M!Highest
<1>2. CASE S # {}
  <2>1. S \in SUBSET Int OBVIOUS
  <2>2. \E m \in S : \A x \in S : x <= m BY <1>2, <2>1, Greatest
  <2>3. \E m \in S : \A x \in S : m >= x BY <2>1, <2>2
  <2>4. M!Max(S) \in S /\ \A x \in S : M!Max(S) >= x BY <2>3 DEF M!Max
  <2>5. M!Highest(S) = M!Max(S) BY <1>2 DEF M!Highest
  <2>6. QED BY <2>4, <2>5
<1>3. QED BY <1>1, <1>2

(* A higher sample is not drawn lower, and none is drawn blank.             *)
LEMMA RungOf ==
  ASSUME NEW v \in Nat, NEW top \in Nat
  PROVE  /\ M!sparkRung(v, top) \in Nat
         /\ M!sparkRung(v, top) # 0 <=> v # 0 /\ top # 0
<1>1. v * 8 \in Nat /\ top + 1 \in Nat \ {0} OBVIOUS
<1>2. PICK q \in Nat : q = (v * 8) \div (top + 1) BY <1>1, Quotient
<1>3. M!sparkRung(v, top) = IF v = 0 \/ top = 0 THEN 0 ELSE 1 + M!Lesser(q, 7)
  BY <1>2 DEF M!sparkRung
<1>4. M!Lesser(q, 7) \in Nat BY DEF M!Lesser
<1>5. QED BY <1>3, <1>4

LEMMA RungGrows ==
  ASSUME NEW v \in Nat, NEW w \in Nat, NEW top \in Nat, v <= w
  PROVE  M!sparkRung(v, top) <= M!sparkRung(w, top)
<1>1. v * 8 \in Nat /\ w * 8 \in Nat /\ v * 8 <= w * 8 /\ top + 1 \in Nat \ {0} OBVIOUS
<1>2. PICK q \in Nat : q = (v * 8) \div (top + 1) BY <1>1, Quotient
<1>3. PICK p \in Nat : p = (w * 8) \div (top + 1) BY <1>1, Quotient
<1>4. q <= p BY <1>1, <1>2, <1>3, QuotientGrows
<1>5. M!sparkRung(v, top) = IF v = 0 \/ top = 0 THEN 0 ELSE 1 + M!Lesser(q, 7)
  BY <1>2 DEF M!sparkRung
<1>6. M!sparkRung(w, top) = IF w = 0 \/ top = 0 THEN 0 ELSE 1 + M!Lesser(p, 7)
  BY <1>3 DEF M!sparkRung
<1>7. M!Lesser(q, 7) <= M!Lesser(p, 7) /\ M!Lesser(q, 7) \in Nat /\ M!Lesser(p, 7) \in Nat
  BY <1>4 DEF M!Lesser
<1>8. QED BY <1>5, <1>6, <1>7

(* What a ring has of the last n passes is the history of them.             *)
LEMMA LastOf ==
  ASSUME NEW t, NEW h \in Seq(Nat), Has(t, h), h # <<>>, NEW n \in Nat \ {0},
         NEW drawn, drawn = M!Lesser(n, t.count)
  PROVE  /\ drawn \in Nat \ {0} /\ 0..(drawn - 1) = Ages(h) \cap 0..(n - 1)
         /\ \A age \in 0..(drawn - 1) : M!at(t, age) = h[Len(h) - age] /\ M!at(t, age) \in Nat
<1>1. Seconds \in Nat \ {0} BY TrendsAssumption
<1>2. Len(h) \in Nat \ {0} BY EmptySeq, LenProperties
<1>3. t.count = M!Lesser(Seconds, Len(h)) /\ \A age \in Ages(h) : M!at(t, age) = h[Len(h) - age]
  BY DEF Has
<1>4. drawn \in Nat \ {0} /\ 0..(drawn - 1) = Ages(h) \cap 0..(n - 1)
  BY <1>1, <1>2, <1>3 DEF Ages, M!Lesser
<1>5. ASSUME NEW age \in 0..(drawn - 1) PROVE M!at(t, age) = h[Len(h) - age] /\ M!at(t, age) \in Nat
  <2>1. age \in Ages(h) BY <1>4, <1>5
  <2>2. Len(h) - age \in 1..Len(h) BY <1>1, <1>2, <2>1 DEF Ages, M!Lesser
  <2>3. h[Len(h) - age] \in Nat BY <2>2
  <2>4. QED BY <1>3, <2>1, <2>3
<1>6. QED BY <1>4, <1>5

(* The highest of the samples drawn.                                        *)
LEMMA TopOf ==
  ASSUME NEW f, NEW n \in Nat, NEW ages \in SUBSET (0..n), \A age \in ages : f[age] \in Nat
  PROVE  LET S == {f[age] : age \in ages} IN
         /\ M!Highest(S) \in Nat /\ \A x \in S : x <= M!Highest(S)
         /\ M!Highest(S) # 0 => M!Highest(S) \in S
<1> DEFINE S == {f[age] : age \in ages}
<1>1. IsFiniteSet(ages)
  <2>1. IsFiniteSet(0..n) BY FS_Interval
  <2>2. QED BY <2>1, FS_Subset
<1>2. IsFiniteSet(S)
  <2>1. PICK g : g = [age \in ages |-> f[age]] OBVIOUS
  <2>2. g \in Surjection(ages, S)
    <3>1. g \in [ages -> S] /\ \A x \in S : \E age \in ages : g[age] = x BY <2>1
    <3>2. QED BY <3>1 DEF Surjection
  <2> HIDE DEF S
  <2>3. QED BY <1>1, <2>2, FS_Surjection
<1>3. S \in SUBSET Nat OBVIOUS
<1> HIDE DEF S
<1>4. /\ M!Highest(S) \in Nat /\ \A x \in S : x <= M!Highest(S)
      /\ M!Highest(S) # 0 => M!Highest(S) \in S
  BY <1>2, <1>3, HighestOf
<1>5. QED BY <1>4 DEF S

(***************************************************************************)
(* The curve of the table, a sample a cell.                                 *)
(***************************************************************************)
LEMMA NarrowCurve ==
  ASSUME NEW t, NEW h \in Seq(Nat), Has(t, h), h # <<>>, NEW width \in Nat \ {0}
  PROVE  LET drawn == Ages(h) \cap 0..(width - 1)
             curve == M!sparkn(t, width) IN
         /\ \A age \in 0..(width - 1) : curve[width - age] # 0 <=> age \in drawn /\ h[Len(h) - age] > 0
         /\ \A a, b \in drawn : h[Len(h) - a] <= h[Len(h) - b] => curve[width - a] <= curve[width - b]
<1> DEFINE curve == M!sparkn(t, width)
<1>1. PICK n : n = M!Lesser(width, t.count) OBVIOUS
<1>2. /\ n \in Nat \ {0} /\ 0..(n - 1) = Ages(h) \cap 0..(width - 1)
      /\ \A age \in 0..(n - 1) : M!at(t, age) = h[Len(h) - age] /\ M!at(t, age) \in Nat
  BY <1>1, LastOf
<1>3. PICK f : f = [age \in 0..(n - 1) |-> M!at(t, age)] OBVIOUS
<1>4. {M!at(t, age) : age \in 0..(n - 1)} = {f[age] : age \in 0..(n - 1)} BY <1>3
<1>5. PICK top : top = M!Highest({f[age] : age \in 0..(n - 1)}) OBVIOUS
<1>6. curve = [i \in 1..width |-> IF width - i < n THEN M!sparkRung(M!at(t, width - i), top) ELSE 0]
  BY <1>1, <1>4, <1>5 DEF M!sparkn
<1>7. top \in Nat /\ \A age \in 0..(n - 1) : f[age] <= top
  <2>1. n - 1 \in Nat /\ 0..(n - 1) \in SUBSET (0..(n - 1)) BY <1>2
  <2>2. \A age \in 0..(n - 1) : f[age] \in Nat BY <1>2, <1>3
  <2>3. LET S == {f[age] : age \in 0..(n - 1)} IN
        /\ M!Highest(S) \in Nat /\ \A x \in S : x <= M!Highest(S)
    BY <2>1, <2>2, TopOf
  <2>4. QED BY <1>5, <2>3
<1> HIDE DEF curve
<1>8. ASSUME NEW age \in 0..(width - 1)
      PROVE  /\ age \in 0..(n - 1) => curve[width - age] = M!sparkRung(h[Len(h) - age], top)
             /\ age \notin 0..(n - 1) => curve[width - age] = 0
  <2>1. width - age \in 1..width /\ width - (width - age) = age OBVIOUS
  <2>2. curve[width - age] = IF age < n THEN M!sparkRung(M!at(t, age), top) ELSE 0
    BY <1>6, <2>1
  <2>3. age < n <=> age \in 0..(n - 1) BY <1>2
  <2>4. QED BY <1>2, <2>2, <2>3
<1>9. ASSUME NEW age \in 0..(width - 1)
      PROVE  curve[width - age] # 0 <=> age \in 0..(n - 1) /\ h[Len(h) - age] > 0
  <2>1. CASE age \in 0..(n - 1)
    <3>1. PICK v \in Nat : v = h[Len(h) - age] BY <1>2, <2>1
    <3>2. v <= top BY <1>2, <1>3, <1>7, <2>1, <3>1
    <3>3. curve[width - age] = M!sparkRung(v, top) BY <1>8, <2>1, <3>1
    <3>4. curve[width - age] # 0 <=> v # 0 /\ top # 0 BY <1>7, <3>3, RungOf
    <3>5. QED BY <1>7, <2>1, <3>1, <3>2, <3>4
  <2>2. CASE age \notin 0..(n - 1) BY <1>8, <2>2
  <2>3. QED BY <2>1, <2>2
<1>10. ASSUME NEW a \in 0..(n - 1), NEW b \in 0..(n - 1), h[Len(h) - a] <= h[Len(h) - b]
       PROVE  curve[width - a] <= curve[width - b]
  <2>1. a \in 0..(width - 1) /\ b \in 0..(width - 1) BY <1>2
  <2>2. PICK v \in Nat, w \in Nat : v = h[Len(h) - a] /\ w = h[Len(h) - b] BY <1>2
  <2>3. curve[width - a] = M!sparkRung(v, top) /\ curve[width - b] = M!sparkRung(w, top)
    BY <1>8, <2>1, <2>2
  <2>4. v <= w BY <1>10, <2>2
  <2>5. QED BY <1>7, <2>3, <2>4, RungGrows
<1>11. QED BY <1>2, <1>9, <1>10 DEF curve

(***************************************************************************)
(* The longer curve, the highest of several samples a cell.                  *)
(***************************************************************************)
LEMMA WideCurve ==
  ASSUME NEW t, NEW h \in Seq(Nat), Has(t, h), h # <<>>,
         NEW width \in Nat \ {0}, NEW seconds \in Nat \ {0}
  PROVE  LET ages == Ages(h) \cap 0..(seconds - 1)
             curve == M!sparkWindow(t, seconds, width)
             top == M!Highest({h[Len(h) - age] : age \in ages})
             rung(age) == M!sparkRung(h[Len(h) - age], top) IN
         /\ \A age \in ages : \E i \in 1..width : curve[i] >= rung(age)
         /\ \A i \in 1..width : curve[i] # 0 => \E age \in ages : curve[i] = rung(age)
         /\ curve[width] >= rung(0)
<1> DEFINE ages == Ages(h) \cap 0..(seconds - 1)
           curve == M!sparkWindow(t, seconds, width)
<1>1. PICK n : n = M!Lesser(seconds, t.count) OBVIOUS
<1>2. /\ n \in Nat \ {0} /\ 0..(n - 1) = ages
      /\ \A age \in ages : M!at(t, age) = h[Len(h) - age] /\ M!at(t, age) \in Nat
  BY <1>1, LastOf
<1> HIDE DEF ages
<1>3. PICK f : f = [age \in ages |-> h[Len(h) - age]] OBVIOUS
<1>4. \A age \in ages : f[age] = h[Len(h) - age] /\ M!at(t, age) = f[age] /\ f[age] \in Nat BY <1>2, <1>3
<1>5. PICK top : top = M!Highest({h[Len(h) - age] : age \in ages}) OBVIOUS
<1> DEFINE cell(age) == width - (age * width) \div n
           highest(i) == M!Highest({M!at(t, age) : age \in {a \in 0..(n - 1) : cell(a) = i}})
           above(i) == {f[age] : age \in {a \in ages : cell(a) = i}}
<1>6. {M!at(t, age) : age \in 0..(n - 1)} = {h[Len(h) - age] : age \in ages} BY <1>2
<1>7. curve = [i \in 1..width |-> M!sparkRung(highest(i), top)]
  BY <1>1, <1>5, <1>6 DEF M!sparkWindow
<1>8. \A age \in ages : cell(age) \in 1..width BY <1>2, CellOf
<1>9. cell(0) = width
  <2>1. 0 * width = 0 OBVIOUS
  <2>2. PICK q \in Nat : q = 0 \div n BY <1>2, Quotient
  <2>3. q = 0
    <3>1. q * n <= 0 BY <1>2, <2>2, Quotient
    <3>2. 0 < (0 + 1) * n BY <1>2
    <3>3. q <= 0 BY <1>2, <3>1, <3>2, QuotientBelow
    <3>4. QED BY <3>3
  <2>4. QED BY <2>1, <2>2, <2>3
<1> HIDE DEF cell
<1>10. ASSUME NEW i
       PROVE  /\ highest(i) = M!Highest(above(i)) /\ highest(i) \in Nat
              /\ \A x \in above(i) : x <= highest(i)
              /\ highest(i) # 0 => highest(i) \in above(i)
  <2>1. PICK m \in Nat : m = n - 1 BY <1>2
  <2>2. PICK some : some = {a \in ages : cell(a) = i} OBVIOUS
  <2>3. some \in SUBSET (0..m) BY <1>2, <2>1, <2>2
  <2>4. {M!at(t, age) : age \in {a \in 0..(n - 1) : cell(a) = i}} = {f[age] : age \in some}
    BY <1>2, <1>4, <2>2
  <2>5. above(i) = {f[age] : age \in some} BY <2>2
  <2>6. \A age \in some : f[age] \in Nat BY <1>4, <2>2
  <2>7. LET S == {f[age] : age \in some} IN
        /\ M!Highest(S) \in Nat /\ \A x \in S : x <= M!Highest(S)
        /\ M!Highest(S) # 0 => M!Highest(S) \in S
    BY <2>3, <2>6, TopOf
  <2>8. QED BY <2>4, <2>5, <2>7
<1>11. top \in Nat
  <2>1. PICK m \in Nat : m = n - 1 BY <1>2
  <2>2. ages \in SUBSET (0..m) BY <1>2, <2>1
  <2>3. M!Highest({f[age] : age \in ages}) \in Nat BY <1>4, <2>2, TopOf
  <2>4. {f[age] : age \in ages} = {h[Len(h) - age] : age \in ages} BY <1>4
  <2>5. QED BY <1>5, <2>3, <2>4
<1>12. \A i \in 1..width : curve[i] = M!sparkRung(highest(i), top) BY <1>7
<1> HIDE DEF curve, highest
<1>13. ASSUME NEW age \in ages PROVE curve[cell(age)] >= M!sparkRung(h[Len(h) - age], top)
  <2>1. PICK i \in 1..width : i = cell(age) BY <1>8
  <2>2. f[age] \in above(i) BY <2>1
  <2>3. PICK v \in Nat : v = f[age] BY <1>4
  <2>4. PICK w \in Nat : w = highest(i) BY <1>10
  <2>5. v <= w BY <1>10, <2>2, <2>3, <2>4
  <2>6. /\ M!sparkRung(v, top) <= M!sparkRung(w, top)
        /\ M!sparkRung(v, top) \in Nat /\ M!sparkRung(w, top) \in Nat
    BY <1>11, <2>5, RungGrows, RungOf
  <2>7. curve[cell(age)] = M!sparkRung(w, top) BY <1>12, <2>1, <2>4
  <2>8. h[Len(h) - age] = v BY <1>4, <2>3
  <2>9. QED BY <2>6, <2>7, <2>8
<1>14. ASSUME NEW age \in ages PROVE \E i \in 1..width : curve[i] >= M!sparkRung(h[Len(h) - age], top)
  BY <1>8, <1>13
<1>15. ASSUME NEW i \in 1..width, curve[i] # 0
       PROVE  \E age \in ages : curve[i] = M!sparkRung(h[Len(h) - age], top)
  <2>1. PICK w \in Nat : w = highest(i) BY <1>10
  <2>2. curve[i] = M!sparkRung(w, top) BY <1>12, <2>1
  <2>3. w # 0 BY <1>11, <1>15, <2>2, RungOf
  <2>4. PICK age \in ages : w = f[age] BY <1>10, <2>1, <2>3
  <2>5. QED BY <1>4, <2>2, <2>4
<1>16. 0 \in ages BY <1>2
<1>17. curve[width] >= M!sparkRung(h[Len(h) - 0], top) BY <1>9, <1>13, <1>16
<1>18. QED BY <1>5, <1>14, <1>15, <1>17 DEF curve, ages

LEMMA CurvesHaveHistory == TrendsInv => M!CurvesShowHistory
<1> SUFFICES ASSUME TrendsInv PROVE M!CurvesShowHistory OBVIOUS
<1>1. ASSUME NEW r \in DOMAIN rings
      PROVE  Has(rings[r], past[r]) /\ past[r] \in Seq(Nat) /\ past[r] # <<>> /\ M!agesOf(r) = Ages(past[r])
  BY DEF TrendsInv, M!agesOf, Ages
<1>2. Widths \subseteq Nat \ {0} /\ Seconds \in Nat \ {0} BY TrendsAssumption
<1>3. ASSUME NEW r \in DOMAIN rings, NEW width \in Widths
      PROVE  LET drawn == Ages(past[r]) \cap 0..(width - 1)
                 curve == M!sparkn(rings[r], width) IN
             /\ \A age \in 0..(width - 1) : curve[width - age] # 0 <=> age \in drawn /\ M!sample(r, age) > 0
             /\ \A a, b \in drawn :
                  M!sample(r, a) <= M!sample(r, b) => curve[width - a] <= curve[width - b]
  <2>1. Has(rings[r], past[r]) /\ past[r] \in Seq(Nat) /\ past[r] # <<>> BY <1>1
  <2>2. width \in Nat \ {0} BY <1>2
  <2>3. QED BY <2>1, <2>2, NarrowCurve DEF M!sample
<1>4. ASSUME NEW r \in DOMAIN rings, NEW width \in Widths, NEW seconds \in 1..(Seconds + 1)
      PROVE  LET ages == Ages(past[r]) \cap 0..(seconds - 1)
                 curve == M!sparkWindow(rings[r], seconds, width)
                 top == M!Highest({M!sample(r, age) : age \in ages})
                 rung(age) == M!sparkRung(M!sample(r, age), top) IN
             /\ \A age \in ages : \E i \in 1..width : curve[i] >= rung(age)
             /\ \A i \in 1..width : curve[i] # 0 => \E age \in ages : curve[i] = rung(age)
             /\ curve[width] >= rung(0)
  <2>1. Has(rings[r], past[r]) /\ past[r] \in Seq(Nat) /\ past[r] # <<>> BY <1>1
  <2>2. width \in Nat \ {0} /\ seconds \in Nat \ {0} BY <1>2
  <2>3. QED BY <2>1, <2>2, WideCurve DEF M!sample
<1>5. QED BY <1>3, <1>4, Zenon DEF M!CurvesShowHistory, M!agesOf, Ages

(***************************************************************************)
(* The ring of a row has the row's last samples, the newest first, whatever  *)
(* was overwritten (trendRing.add, trendRing.at of trend.go); the curve of    *)
(* the table has each sample of the last passes in its place, higher ones not *)
(* lower and blank where there is none; and the longer curve loses no peak    *)
(* and shows nothing that was not there (sparkn, sparkWindow): for any number *)
(* of rows, size of rings and of the store, and width of curves.             *)
(***************************************************************************)
THEOREM TrendsRight == HostSpec => []ShowsHistory
<1>1. HostInit => TrendsInv BY TrendsStart DEF HostInit
<1>2. TrendsInv /\ [HostNext]_<<vars, tvars, trends>> => TrendsInv'
  <2> SUFFICES ASSUME TrendsInv, [HostNext]_<<vars, tvars, trends>> PROVE TrendsInv' OBVIOUS
  <2>1. [M!Next]_trends BY DEF HostNext
  <2>2. QED BY <2>1, TrendsInductive
<1>3. TrendsInv => ShowsHistory BY RingsHaveHistory, CurvesHaveHistory DEF ShowsHistory
<1>4. QED BY <1>1, <1>2, <1>3, PTL DEF HostSpec

(***************************************************************************)
(* The rings that are kept: rows are missing in the order in which they were *)
(* last shown, and one that is not missing was shown in this pass or the last. *)
(***************************************************************************)
MissingInOrder ==
  /\ \A x \in DOMAIN unused :
       /\ unused[x] \in Nat /\ last[x] < unused[x]
       /\ unused[x] <= IF pass THEN before ELSE tick
  /\ \A x, y \in DOMAIN unused :
       /\ unused[x] < unused[y] => unused[x] <= last[y]
       /\ unused[x] = unused[y] => last[x] = last[y]
ShownLately ==
  \A x \in DOMAIN rings \ DOMAIN unused : last[x] = IF pass /\ x \notin shown THEN before ELSE tick
KeptInv ==
  /\ tick \in Nat /\ before \in Nat /\ (IF pass THEN before < tick ELSE before <= tick)
  /\ last \in [Rows -> Nat] /\ shown \subseteq Rows /\ pass \in BOOLEAN
  /\ Cardinality(DOMAIN rings) <= TrendRows
  /\ MissingInOrder /\ ShownLately
RingsInv == TrendsInv /\ KeptInv

LEMMA KeptStart == ASSUME M!Init PROVE KeptInv
<1>1. /\ DOMAIN rings = {} /\ DOMAIN unused = {} /\ tick = 0 /\ before = 0 /\ pass = FALSE /\ shown = {}
      /\ last = [r \in Rows |-> 0]
  BY DEF M!Init
<1>2. Cardinality(DOMAIN rings) = 0 BY <1>1, FS_EmptySet
<1>3. TrendRows \in Nat BY TrendsAssumption
<1>4. last \in [Rows -> Nat] BY <1>1
<1>5. MissingInOrder /\ ShownLately BY <1>1 DEF MissingInOrder, ShownLately
<1>6. Cardinality(DOMAIN rings) <= TrendRows BY <1>2, <1>3
<1>7. tick \in Nat /\ before \in Nat /\ before <= tick /\ shown \subseteq Rows BY <1>1
<1>8. QED BY <1>1, <1>4, <1>5, <1>6, <1>7 DEF KeptInv

LEMMA RingsFinite ==
  ASSUME TrendsInv PROVE IsFiniteSet(DOMAIN rings) /\ Cardinality(DOMAIN rings) \in Nat
<1>1. DOMAIN rings \subseteq Rows /\ IsFiniteSet(Rows) BY TrendsAssumption DEF TrendsInv
<1>2. QED BY <1>1, FS_Subset, FS_CardinalityType

LEMMA KeptPass == ASSUME RingsInv, NEW rows, M!Pass(rows) PROVE KeptInv' /\ M!kept
<1>1. /\ pass = FALSE /\ pass' = TRUE /\ shown' = {} /\ before' = tick
      /\ UNCHANGED <<rings, unused, past, last>>
      /\ \E gap \in Gaps : tick' = tick + gap
  BY DEF M!Pass, RingsInv, KeptInv
<1>2. tick \in Nat /\ tick' \in Nat /\ tick < tick'
  BY <1>1, TrendsAssumption DEF RingsInv, KeptInv
<1>3. MissingInOrder' /\ ShownLately' BY <1>1, <1>2 DEF RingsInv, KeptInv, MissingInOrder, ShownLately
<1>4. M!Cardinality(DOMAIN rings) = Cardinality(DOMAIN rings) BY DEF M!Cardinality, Cardinality
<1>5. QED BY <1>1, <1>2, <1>3, <1>4 DEF RingsInv, KeptInv, M!kept

(* What makes room was missing longest: if it was shown lately all others were. *)
LEMMA OthersRecent ==
  ASSUME RingsInv, pass, NEW x \in M!evictOldest, M!recent(x), NEW y \in DOMAIN rings
  PROVE  M!recent(y)
<1>1. /\ tick \in Nat /\ before \in Nat /\ before < tick /\ Stale \in Nat
      /\ MissingInOrder /\ ShownLately
  BY TrendsAssumption DEF RingsInv, KeptInv
<1>2. x \in DOMAIN rings /\ x \in Rows /\ y \in Rows /\ last[x] \in Nat /\ last[y] \in Nat
  BY DEF M!evictOldest, RingsInv, TrendsInv, KeptInv
<1>3. CASE y \notin DOMAIN unused
  <2>1. last[y] >= before BY <1>1, <1>3 DEF ShownLately
  <2>2. QED BY <2>1 DEF M!recent
<1>4. CASE y \in DOMAIN unused
  <2>1. unused # <<>> BY <1>4
  <2>2. x \in DOMAIN unused /\ unused[x] <= unused[y] BY <1>4, <2>1 DEF M!evictOldest
  <2>3. unused[x] \in Nat /\ unused[y] \in Nat /\ last[x] < unused[x] BY <1>1, <1>4, <2>2 DEF MissingInOrder
  <2>4. last[x] <= last[y]
    <3>1. /\ unused[x] < unused[y] => unused[x] <= last[y]
          /\ unused[x] = unused[y] => last[x] = last[y]
      <4>1. \A a, b \in DOMAIN unused :
             /\ unused[a] < unused[b] => unused[a] <= last[b]
             /\ unused[a] = unused[b] => last[a] = last[b]
        BY <1>1, Zenon DEF MissingInOrder
      <4>2. QED BY <1>4, <2>2, <4>1
    <3>2. QED BY <1>2, <2>2, <2>3, <3>1
  <2>5. QED BY <1>1, <1>2, <2>4 DEF M!recent
<1>5. QED BY <1>3, <1>4

LEMMA AddKeeps ==
  ASSUME RingsInv, pass, NEW r \in Rows, NEW total, NEW dropped \in SUBSET DOMAIN rings, r \notin dropped,
         M!AddWith(r, total, dropped), shown' = shown \cup {r}, last' = [last EXCEPT ![r] = tick],
         UNCHANGED <<tick, pass, before>>,
         Cardinality((DOMAIN rings \ dropped) \cup {r}) <= TrendRows
  PROVE  KeptInv' /\ DOMAIN rings' = (DOMAIN rings \ dropped) \cup {r}
<1> DEFINE longer == M!add(IF r \in DOMAIN rings THEN rings[r] ELSE M!NewRing, total)
<1>1. /\ rings' = M!With(M!Without(rings, dropped), r, longer)
      /\ unused' = M!Without(unused, dropped \cup {r})
  BY DEF M!AddWith
<1> HIDE DEF longer
<1>2. DOMAIN rings' = (DOMAIN rings \ dropped) \cup {r} BY <1>1 DEF M!With, M!Without
<1>3. /\ DOMAIN unused' = DOMAIN unused \ (dropped \cup {r})
      /\ \A x \in DOMAIN unused' : unused'[x] = unused[x]
  BY <1>1 DEF M!Without
<1>4. /\ tick \in Nat /\ before \in Nat /\ before < tick /\ last \in [Rows -> Nat] /\ shown \subseteq Rows
      /\ MissingInOrder /\ ShownLately
  BY DEF RingsInv, KeptInv
<1>5. DOMAIN rings \subseteq Rows /\ DOMAIN unused \subseteq DOMAIN rings BY DEF RingsInv, TrendsInv
<1>6. last'[r] = tick /\ \A x \in Rows \ {r} : last'[x] = last[x] BY <1>4
<1>7. \A x \in DOMAIN unused' : x \in DOMAIN unused /\ last'[x] = last[x] /\ unused'[x] = unused[x]
  BY <1>3, <1>5, <1>6
<1>8. MissingInOrder' BY <1>4, <1>7 DEF MissingInOrder
<1>9. ShownLately'
  <2> SUFFICES ASSUME NEW x \in DOMAIN rings' \ DOMAIN unused'
               PROVE  last'[x] = IF pass' /\ x \notin shown' THEN before' ELSE tick'
    BY DEF ShownLately
  <2>1. CASE x = r BY <1>6, <2>1
  <2>2. CASE x # r
    <3>1. x \in DOMAIN rings /\ x \notin DOMAIN unused BY <1>2, <1>3, <2>2
    <3>2. last'[x] = last[x] /\ (x \in shown' <=> x \in shown) BY <1>5, <1>6, <2>2, <3>1
    <3>3. QED BY <1>4, <3>1, <3>2 DEF ShownLately
  <2>3. QED BY <2>1, <2>2
<1>10. last' \in [Rows -> Nat] BY <1>4
<1>11. QED BY <1>2, <1>4, <1>8, <1>9, <1>10 DEF KeptInv, RingsInv

LEMMA KeptAdd == ASSUME RingsInv, M!Add PROVE KeptInv' /\ M!kept
<1> DEFINE r == Head(todo).row
           total == Head(todo).total
           storeFull == r \notin DOMAIN rings /\ M!Cardinality(DOMAIN rings) >= TrendRows
           D == DOMAIN rings
<1>1. /\ pass /\ todo # <<>> /\ shown' = shown \cup {r} /\ last' = [last EXCEPT ![r] = tick]
      /\ UNCHANGED <<tick, pass, before>>
      /\ IF storeFull THEN \E x \in M!evictOldest : M!AddWith(r, total, {x}) ELSE M!AddWith(r, total, {})
  BY DEF M!Add
<1>2. r \in Rows
  <2>1. todo \in Seq([row : Rows, total : Totals]) BY DEF RingsInv, TrendsInv
  <2>2. Head(todo) \in [row : Rows, total : Totals] BY <1>1, <2>1, HeadTailProperties
  <2>3. QED BY <2>2
<1>3. M!Cardinality(D) = Cardinality(D) BY DEF M!Cardinality, Cardinality
<1>4. /\ IsFiniteSet(D) /\ Cardinality(D) \in Nat /\ Cardinality(D) <= TrendRows /\ TrendRows \in Nat
      /\ D \subseteq Rows /\ shown \subseteq Rows
  BY RingsFinite, TrendsAssumption DEF RingsInv, KeptInv, TrendsInv
<1> HIDE DEF r, total
<1>5. CASE storeFull
  <2>1. PICK x \in M!evictOldest : M!AddWith(r, total, {x}) BY <1>1, <1>5
  <2>2. x \in D /\ r \notin D /\ Cardinality(D) = TrendRows
    <3>1. x \in D BY <2>1 DEF M!evictOldest, RingsInv, TrendsInv
    <3>2. QED BY <1>3, <1>4, <1>5, <3>1
  <2>3. /\ IsFiniteSet(D \ {x}) /\ Cardinality(D \ {x}) = Cardinality(D) - 1
    BY <1>4, <2>2, FS_RemoveElement
  <2>4. Cardinality((D \ {x}) \cup {r}) = Cardinality(D)
    <3>1. Cardinality((D \ {x}) \cup {r}) = Cardinality(D \ {x}) + 1 BY <2>2, <2>3, FS_AddElement
    <3>2. QED BY <1>4, <2>3, <3>1
  <2>5. KeptInv' /\ DOMAIN rings' = (D \ {x}) \cup {r}
    <3>1. r \notin {x} /\ {x} \in SUBSET D /\ Cardinality((D \ {x}) \cup {r}) <= TrendRows
      BY <1>4, <2>2, <2>4
    <3>2. QED BY <1>1, <1>2, <2>1, <3>1, AddKeeps
  <2>6. D \ DOMAIN rings' = {x} BY <2>2, <2>5
  <2>7. ASSUME M!recent(x) PROVE M!Cardinality({y \in D : M!recent(y)} \cup shown') > TrendRows
    <3> DEFINE S == {y \in D : M!recent(y)} \cup shown'
    <3>1. \A y \in D : M!recent(y) BY <1>1, <2>1, <2>7, OthersRecent
    <3>2. D \cup {r} \subseteq S BY <1>1, <3>1
    <3>3. S \subseteq Rows BY <1>1, <1>2, <1>4
    <3> HIDE DEF S
    <3>4. IsFiniteSet(S) BY <3>3, TrendsAssumption, FS_Subset
    <3>5. Cardinality(D \cup {r}) <= Cardinality(S) BY <3>2, <3>4, FS_Subset
    <3>6. Cardinality(D \cup {r}) = Cardinality(D) + 1 BY <1>4, <2>2, FS_AddElement
    <3>7. Cardinality(S) \in Nat BY <3>4, FS_CardinalityType
    <3>8. M!Cardinality(S) = Cardinality(S) BY DEF M!Cardinality, Cardinality
    <3>9. M!Cardinality(S) > TrendRows BY <1>4, <2>2, <3>5, <3>6, <3>7, <3>8
    <3>10. QED BY <3>9 DEF S
  <2>8. M!Cardinality(DOMAIN rings') <= TrendRows
    <3>1. M!Cardinality(DOMAIN rings') = Cardinality(DOMAIN rings') BY DEF M!Cardinality, Cardinality
    <3>2. QED BY <1>4, <2>4, <2>5, <3>1
  <2>9. QED BY <2>5, <2>6, <2>7, <2>8 DEF M!kept
<1>6. CASE ~storeFull
  <2>1. Cardinality(D \cup {r}) <= TrendRows
    <3>1. CASE r \in D
      <4>1. D \cup {r} = D BY <3>1
      <4>2. QED BY <1>4, <4>1
    <3>2. CASE r \notin D
      <4>1. Cardinality(D \cup {r}) = Cardinality(D) + 1 BY <1>4, <3>2, FS_AddElement
      <4>2. Cardinality(D) < TrendRows BY <1>3, <1>4, <1>6, <3>2
      <4>3. QED BY <1>4, <4>1, <4>2
    <3>3. QED BY <3>1, <3>2
  <2>2. KeptInv' /\ DOMAIN rings' = D \cup {r}
    <3>1. (D \ {}) \cup {r} = D \cup {r} OBVIOUS
    <3>2. r \notin {} /\ {} \in SUBSET D OBVIOUS
    <3>3. QED BY <1>1, <1>2, <1>6, <2>1, <3>1, <3>2, AddKeeps
  <2>3. M!Cardinality(DOMAIN rings') = Cardinality(DOMAIN rings') BY DEF M!Cardinality, Cardinality
  <2>4. QED BY <2>1, <2>2, <2>3 DEF M!kept
<1>7. QED BY <1>5, <1>6

LEMMA KeptSweep == ASSUME RingsInv, M!Sweep PROVE KeptInv' /\ M!kept
<1> DEFINE marked == [x \in DOMAIN unused \cup M!marks |-> IF x \in M!marks THEN tick ELSE unused[x]]
           dropped == {x \in DOMAIN marked : tick - marked[x] >= Stale}
<1>1. /\ pass = TRUE /\ pass' = FALSE /\ UNCHANGED <<tick, shown, last, before>>
      /\ rings' = M!Without(rings, dropped) /\ unused' = M!Without(marked, dropped)
  BY DEF M!Sweep, RingsInv, KeptInv
<1>2. /\ tick \in Nat /\ before \in Nat /\ before < tick /\ last \in [Rows -> Nat] /\ Stale \in Nat \ {0}
      /\ MissingInOrder /\ ShownLately
  BY <1>1, TrendsAssumption DEF RingsInv, KeptInv
<1>3. DOMAIN rings \subseteq Rows /\ DOMAIN unused \subseteq DOMAIN rings BY DEF RingsInv, TrendsInv
<1>4. \A x \in M!marks : x \in DOMAIN rings /\ x \notin DOMAIN unused /\ last[x] = before
  BY <1>1, <1>2 DEF M!marks, ShownLately
<1>5. /\ DOMAIN marked = DOMAIN unused \cup M!marks
      /\ \A x \in M!marks : marked[x] = tick
      /\ \A x \in DOMAIN unused : marked[x] = unused[x]
  BY <1>4
<1>6. \A x \in dropped : x \in DOMAIN marked /\ tick - marked[x] >= Stale OBVIOUS
<1> HIDE DEF marked, dropped
<1>7. DOMAIN rings' = DOMAIN rings \ dropped BY <1>1 DEF M!Without
<1>8. DOMAIN unused' = DOMAIN marked \ dropped /\ \A x \in DOMAIN unused' : unused'[x] = marked[x]
  BY <1>1 DEF M!Without
<1>9. \A x \in DOMAIN unused :
         unused[x] \in Nat /\ last[x] < unused[x] /\ unused[x] <= before /\ last[x] \in Nat
  BY <1>1, <1>2, <1>3 DEF MissingInOrder
<1>10. MissingInOrder'
  <2>1. \A x \in DOMAIN unused' : x \in DOMAIN unused \cup M!marks BY <1>5, <1>8
  <2>2. \A x \in DOMAIN unused' \cap DOMAIN unused : unused'[x] = unused[x] BY <1>5, <1>8
  <2>3. \A x \in DOMAIN unused' \cap M!marks : unused'[x] = tick BY <1>5, <1>8
  <2>4. ASSUME NEW x \in DOMAIN unused'
        PROVE  unused'[x] \in Nat /\ last'[x] < unused'[x] /\ unused'[x] <= tick'
    BY <1>1, <1>2, <1>4, <1>9, <2>1, <2>2, <2>3
  <2>5. ASSUME NEW x \in DOMAIN unused', NEW y \in DOMAIN unused'
        PROVE  /\ unused'[x] < unused'[y] => unused'[x] <= last'[y]
               /\ unused'[x] = unused'[y] => last'[x] = last'[y]
    <3>1. CASE x \in DOMAIN unused /\ y \in DOMAIN unused
      <4>1. /\ unused[x] < unused[y] => unused[x] <= last[y]
            /\ unused[x] = unused[y] => last[x] = last[y]
        <5>1. \A a, b \in DOMAIN unused :
               /\ unused[a] < unused[b] => unused[a] <= last[b]
               /\ unused[a] = unused[b] => last[a] = last[b]
          BY <1>2, Zenon DEF MissingInOrder
        <5>2. QED BY <3>1, <5>1
      <4>2. unused'[x] = unused[x] /\ unused'[y] = unused[y] /\ last' = last BY <1>1, <2>2, <3>1
      <4>3. QED BY <4>1, <4>2
    <3>2. CASE x \in M!marks BY <1>1, <1>2, <1>4, <1>9, <2>1, <2>2, <2>3, <3>2
    <3>3. CASE x \in DOMAIN unused /\ y \in M!marks BY <1>1, <1>2, <1>4, <1>9, <2>2, <2>3, <3>3
    <3>4. QED BY <2>1, <3>1, <3>2, <3>3
  <2>6. QED BY <1>1, <2>4, <2>5 DEF MissingInOrder
<1>11. ShownLately'
  <2> SUFFICES ASSUME NEW x \in DOMAIN rings' \ DOMAIN unused' PROVE last'[x] = tick'
    BY <1>1 DEF ShownLately
  <2>1. x \in DOMAIN rings /\ x \notin DOMAIN marked BY <1>7, <1>8
  <2>2. x \notin DOMAIN unused /\ x \in shown BY <1>5, <2>1 DEF M!marks
  <2>3. QED BY <1>1, <1>2, <2>1, <2>2 DEF ShownLately
<1>12. Cardinality(DOMAIN rings') <= TrendRows
  <2>1. /\ IsFiniteSet(DOMAIN rings) /\ Cardinality(DOMAIN rings) \in Nat
        /\ Cardinality(DOMAIN rings) <= TrendRows /\ TrendRows \in Nat
    BY RingsFinite, TrendsAssumption DEF RingsInv, KeptInv
  <2>2. IsFiniteSet(DOMAIN rings') /\ Cardinality(DOMAIN rings') <= Cardinality(DOMAIN rings)
    BY <1>7, <2>1, FS_Subset
  <2>3. Cardinality(DOMAIN rings') \in Nat BY <2>2, FS_CardinalityType
  <2>4. QED BY <2>1, <2>2, <2>3
<1>13. \A x \in DOMAIN rings \ DOMAIN rings' : ~M!recent(x)
  <2> SUFFICES ASSUME NEW x \in DOMAIN rings, x \in dropped PROVE ~M!recent(x) BY <1>7
  <2>1. x \in DOMAIN marked /\ tick - marked[x] >= Stale BY <1>6
  <2>2. x \notin M!marks BY <1>2, <1>5, <2>1
  <2>3. x \in DOMAIN unused /\ marked[x] = unused[x] BY <1>5, <2>1, <2>2
  <2>4. last[x] \in Nat /\ unused[x] \in Nat /\ last[x] < unused[x] /\ unused[x] <= before BY <1>9, <2>3
  <2>5. QED BY <1>2, <2>1, <2>3, <2>4 DEF M!recent
<1>14. M!kept
  <2>1. M!Cardinality(DOMAIN rings') = Cardinality(DOMAIN rings') BY DEF M!Cardinality, Cardinality
  <2>2. QED BY <1>12, <1>13, <2>1 DEF M!kept
<1>15. shown \subseteq Rows BY DEF RingsInv, KeptInv
<1>16. before' <= tick' BY <1>1, <1>2
<1>17. QED BY <1>1, <1>2, <1>10, <1>11, <1>12, <1>14, <1>15, <1>16 DEF KeptInv

(***************************************************************************)
(* The store is bounded, and a row loses its history only after it was       *)
(* missing for Stale or while more rows were shown lately than the store      *)
(* holds (add, evict, evictOldest of trend.go), for any number of rows.       *)
(***************************************************************************)
THEOREM RingsKept == HostSpec => [][M!kept]_trends
<1>1. HostInit => RingsInv BY TrendsStart, KeptStart DEF HostInit, RingsInv
<1>2. RingsInv /\ [HostNext]_<<vars, tvars, trends>> => RingsInv' /\ [M!kept]_trends
  <2> SUFFICES ASSUME RingsInv, [HostNext]_<<vars, tvars, trends>> PROVE RingsInv' /\ [M!kept]_trends
    OBVIOUS
  <2>1. [M!Next]_trends BY DEF HostNext
  <2>2. TrendsInv' BY <2>1, TrendsInductive DEF RingsInv
  <2>3. CASE UNCHANGED trends
    BY <2>2, <2>3 DEF trends, RingsInv, KeptInv, MissingInOrder, ShownLately
  <2>4. CASE M!Next BY <2>2, <2>4, KeptPass, KeptAdd, KeptSweep DEF M!Next, RingsInv
  <2>5. QED BY <2>1, <2>3, <2>4
<1>3. QED BY <1>1, <1>2, PTL DEF HostSpec

(***************************************************************************)
(* The screen, for any number of interfaces, lines, rows and connections.  *)
(***************************************************************************)
CONSTANTS RowNames, Connections

Lists == UNION {[S -> Seq(Connections)] : S \in SUBSET RowNames}
ScreenNext ==
  \/ \E key \in STRING : U!Key(key)
  \/ \E where \in {"row", "flow"}, line \in Nat : U!Click(where, line)
  \/ \E now \in Seq(RowNames), below \in Lists : U!Change(now, below) \/ U!Tick(now, below)
  \/ U!ToggleCapture
ScreenSpec == U!Init /\ [][ScreenNext]_U!vars
Sizes == Interfaces \in Nat /\ Height \in Nat \ {0} /\ Visible \in Nat

(***************************************************************************)
(* What every key leaves a terminalUI with.                                *)
(***************************************************************************)
Fields == {"mode", "previousMode", "returnMode", "hostScope", "interface", "topTab", "filtering",
           "filter", "overlay", "selected", "group", "labels", "scroll", "focus", "detailOf",
           "sFlow", "flowRef", "flowOrder", "shown"}
Modes == {"PID", "SOURCE", "TARGET", "PROTOCOL", "SERVICES", "LOG", "PORTS", "DOMAINS", "INTERFACES"}
RowsThereAre == Modes \X (RowNames \cup Nat)
FlowsThereAre == RowNames \X Connections
Usable(v) ==
  /\ DOMAIN v = Fields
  /\ v.mode \in Modes /\ v.previousMode \in Modes /\ v.returnMode \in Modes
  /\ v.selected \in Nat /\ v.scroll \in Nat /\ v.sFlow \in Nat
  /\ v.shown.start \in Nat
  /\ v.labels \in Seq(RowsThereAre) /\ v.flowOrder \in Seq(FlowsThereAre)

(* What a drawing leaves: the highlight is that of the table drawn.          *)
Highlighted(v) ==
  /\ v.group = v.shown.row
  /\ v.labels = <<>> => v.group = U!None
  /\ v.labels # <<>> =>
       /\ v.selected + 1 \in 1..Len(v.labels) /\ v.labels[v.selected + 1] = v.group
       /\ v.selected \in v.scroll..(v.scroll + Height - 1)
Detailed(v) ==
  v.shown.flow # U!None =>
    /\ v.overlay = "" /\ v.detailOf = v.group
    /\ v.flowRef = v.shown.flow /\ v.flowOrder[v.sFlow + 1] = v.shown.flow
    /\ v.shown.flow[1] = v.shown.row[2]
Drawn(v) == Usable(v) /\ Highlighted(v) /\ Detailed(v)

(***************************************************************************)
(* Rows and lists.                                                         *)
(***************************************************************************)
LEMMA SequenceOf ==
  ASSUME NEW S, NEW n \in Nat, NEW f \in [1..n -> S] PROVE f \in Seq(S) /\ Len(f) = n
  OBVIOUS

LEMMA RowsType ==
  ASSUME Sizes, NEW mode \in Modes, NEW now \in Seq(RowNames)
  PROVE  U!rows(mode, now) \in Seq(RowsThereAre)
<1>1. CASE mode = "INTERFACES"
  <2>1. U!rows(mode, now) = [i \in 1..Interfaces |-> <<mode, i>>] BY <1>1 DEF U!rows
  <2>2. ASSUME NEW i \in 1..Interfaces PROVE <<mode, i>> \in RowsThereAre
    <3>1. i \in RowNames \cup Nat BY DEF Sizes
    <3>2. QED BY <3>1 DEF RowsThereAre
  <2>3. [i \in 1..Interfaces |-> <<mode, i>>] \in [1..Interfaces -> RowsThereAre] BY <2>2
  <2>4. Interfaces \in Nat BY DEF Sizes
  <2>5. QED BY <2>1, <2>3, <2>4, SequenceOf
<1>2. CASE mode # "INTERFACES"
  <2>1. U!rows(mode, now) = [i \in 1..Len(now) |-> <<mode, now[i]>>] BY <1>2 DEF U!rows
  <2>2. ASSUME NEW i \in 1..Len(now) PROVE <<mode, now[i]>> \in RowsThereAre
    <3>1. now[i] \in RowNames \cup Nat OBVIOUS
    <3>2. QED BY <3>1 DEF RowsThereAre
  <2>3. [i \in 1..Len(now) |-> <<mode, now[i]>>] \in [1..Len(now) -> RowsThereAre] BY <2>2
  <2>4. Len(now) \in Nat OBVIOUS
  <2>5. QED BY <2>1, <2>3, <2>4, SequenceOf
<1>3. QED BY <1>1, <1>2

LEMMA ListType ==
  ASSUME NEW row, NEW below \in Lists
  PROVE  /\ U!flowsOf(row, below) \in Seq(FlowsThereAre)
         /\ \A i \in 1..Len(U!flowsOf(row, below)) : U!flowsOf(row, below)[i][1] = row[2]
<1>1. CASE row[2] \in DOMAIN below
  <2>1. PICK S \in SUBSET RowNames : below \in [S -> Seq(Connections)] BY DEF Lists
  <2> DEFINE list == below[row[2]]
  <2>2. list \in Seq(Connections) /\ row[2] \in RowNames BY <1>1, <2>1
  <2>3. U!flowsOf(row, below) = [i \in 1..Len(list) |-> <<row[2], list[i]>>]
    BY <1>1, <2>2 DEF U!flowsOf
  <2>4. \A i \in 1..Len(list) : <<row[2], list[i]>> \in FlowsThereAre BY <2>2 DEF FlowsThereAre
  <2>5. Len(list) \in Nat BY <2>2
  <2> HIDE DEF list
  <2>6. [i \in 1..Len(list) |-> <<row[2], list[i]>>] \in [1..Len(list) -> FlowsThereAre] BY <2>4
  <2>7. U!flowsOf(row, below) \in Seq(FlowsThereAre) /\ Len(U!flowsOf(row, below)) = Len(list)
    BY <2>3, <2>5, <2>6, SequenceOf
  <2>8. \A i \in 1..Len(list) : U!flowsOf(row, below)[i][1] = row[2] BY <2>3
  <2>9. QED BY <2>7, <2>8
<1>2. CASE row[2] \notin DOMAIN below BY <1>2 DEF U!flowsOf
<1>3. QED BY <1>1, <1>2

(* A row or a connection is not nothing.                                     *)
LEMMA Something == U!None \notin RowsThereAre /\ U!None \notin FlowsThereAre
<1>1. \A a, b : <<>> # <<a, b>>
  <2> TAKE a, b
  <2>1. Len(<<>>) = 0 /\ Len(<<a, b>>) = 2 OBVIOUS
  <2>2. QED BY <2>1
<1>2. QED BY <1>1 DEF RowsThereAre, FlowsThereAre, U!None

LEMMA Clamped ==
  ASSUME NEW i \in Int, NEW n \in Nat
  PROVE  /\ U!Clamp(i, n) \in Nat
         /\ n # 0 => U!Clamp(i, n) + 1 \in 1..n
  BY DEF U!Clamp, U!lesser

(* Where something is in a sequence.                                         *)
LEMMA Position ==
  ASSUME NEW S, NEW s \in Seq(S), NEW x, x \in U!ToSet(s)
  PROVE  LET at == (CHOOSE i \in DOMAIN s : s[i] = x) - 1 IN
         at \in Nat /\ at + 1 \in 1..Len(s) /\ s[at + 1] = x
<1>1. \E i \in DOMAIN s : s[i] = x BY DEF U!ToSet
<1> DEFINE i == CHOOSE i \in DOMAIN s : s[i] = x
<1>2. i \in DOMAIN s /\ s[i] = x BY <1>1
<1>3. DOMAIN s = 1..Len(s) /\ Len(s) \in Nat OBVIOUS
<1> HIDE DEF i
<1>4. i \in Nat /\ i - 1 \in Nat /\ (i - 1) + 1 = i BY <1>2, <1>3
<1>5. QED BY <1>2, <1>3, <1>4 DEF i
(***************************************************************************)
(* A drawing.                                                              *)
(***************************************************************************)
LEMMA SelectRow ==
  ASSUME Sizes, NEW v, Usable(v), NEW ids \in Seq(RowsThereAre)
  PROVE  LET w == U!selectRow(v, ids) IN
         /\ Usable(w)
         /\ w.labels = ids /\ w.mode = v.mode /\ w.overlay = v.overlay /\ w.detailOf = v.detailOf
         /\ ids = <<>> => w.group = U!None
         /\ ids # <<>> =>
              /\ w.selected + 1 \in 1..Len(ids) /\ ids[w.selected + 1] = w.group
              /\ w.selected \in w.scroll..(w.scroll + Height - 1)
         /\ v.group # U!None /\ v.group \in U!ToSet(ids) => w.group = v.group /\ w.flowRef = v.flowRef
<1> DEFINE found == v.group # U!None /\ v.group \in U!ToSet(ids)
           at == IF found THEN (CHOOSE i \in DOMAIN ids : ids[i] = v.group) - 1
                 ELSE U!Clamp(v.selected, Len(ids))
           scroll == IF at < v.scroll THEN at
                     ELSE IF at >= v.scroll + Height THEN at - Height + 1 ELSE v.scroll
           w == U!selectRow(v, ids)
<1>1. /\ at \in Nat
      /\ ids # <<>> => at + 1 \in 1..Len(ids)
      /\ found => ids[at + 1] = v.group /\ ids # <<>>
  <2>1. CASE found
    <3>1. at = (CHOOSE i \in DOMAIN ids : ids[i] = v.group) - 1 BY <2>1
    <3>2. QED BY <2>1, <3>1, Position
  <2>2. CASE ~found
    <3>1. at = U!Clamp(v.selected, Len(ids)) BY <2>2
    <3>2. v.selected \in Int /\ Len(ids) \in Nat /\ (ids # <<>> => Len(ids) # 0) BY DEF Usable
    <3>3. QED BY <2>2, <3>1, <3>2, Clamped
  <2>3. QED BY <2>1, <2>2
<1>2. w = [v EXCEPT !.selected = at, !.flowRef = IF v.group = U!None \/ found THEN @ ELSE U!None,
                    !.group = IF ids # <<>> THEN ids[at + 1] ELSE U!None, !.labels = ids,
                    !.scroll = scroll]
  BY DEF U!selectRow
<1> HIDE DEF at, w
<1>3. scroll \in Nat /\ at \in scroll..(scroll + Height - 1)
  <2>1. at \in Nat /\ v.scroll \in Nat /\ Height \in Nat \ {0} BY <1>1 DEF Sizes, Usable
  <2>2. QED BY <2>1
<1> HIDE DEF scroll, found
<1>4. /\ w.selected = at /\ w.labels = ids /\ w.scroll = scroll /\ DOMAIN w = Fields
      /\ w.group = IF ids # <<>> THEN ids[at + 1] ELSE U!None
      /\ w.flowRef = IF v.group = U!None \/ found THEN v.flowRef ELSE U!None
      /\ w.mode = v.mode /\ w.previousMode = v.previousMode /\ w.returnMode = v.returnMode
      /\ w.overlay = v.overlay /\ w.detailOf = v.detailOf
      /\ w.sFlow = v.sFlow /\ w.flowOrder = v.flowOrder /\ w.shown = v.shown
  BY <1>2 DEF Usable, Fields
<1>5. Usable(w) BY <1>1, <1>3, <1>4 DEF Usable
<1>6. found => w.group = v.group /\ w.flowRef = v.flowRef BY <1>1, <1>4
<1>7. QED BY <1>1, <1>3, <1>4, <1>5, <1>6 DEF w, found

LEMMA OfRow ==
  ASSUME NEW v, Usable(v)
  PROVE  LET w == U!ofRow(v) IN
         /\ Usable(w) /\ w.detailOf = w.group
         /\ w.labels = v.labels /\ w.mode = v.mode /\ w.overlay = v.overlay /\ w.group = v.group
         /\ w.selected = v.selected /\ w.scroll = v.scroll
         /\ v.detailOf = v.group => w = v
<1>1. CASE v.group = v.detailOf BY <1>1 DEF U!ofRow
<1>2. CASE v.group # v.detailOf
  <2>1. U!ofRow(v) = [v EXCEPT !.detailOf = v.group, !.sFlow = 0, !.flowRef = U!None]
    BY <1>2 DEF U!ofRow
  <2>2. QED BY <1>2, <2>1 DEF Usable, Fields
<1>3. QED BY <1>1, <1>2

LEMMA SelectFlow ==
  ASSUME Sizes, NEW v, Usable(v), NEW list \in Seq(FlowsThereAre), list # <<>>
  PROVE  LET w == U!selectFlow(v, list) IN
         /\ Usable(w)
         /\ w.labels = v.labels /\ w.mode = v.mode /\ w.overlay = v.overlay /\ w.group = v.group
         /\ w.detailOf = v.detailOf /\ w.selected = v.selected /\ w.scroll = v.scroll
         /\ w.shown.row = v.group /\ w.shown.flow = w.flowRef
         /\ w.flowOrder = list /\ w.sFlow + 1 \in 1..Len(list) /\ list[w.sFlow + 1] = w.flowRef
         /\ v.flowRef # U!None /\ v.flowRef \in U!ToSet(list) => w.flowRef = v.flowRef
<1> DEFINE found == v.flowRef # U!None /\ v.flowRef \in U!ToSet(list)
           at == IF found THEN (CHOOSE i \in DOMAIN list : list[i] = v.flowRef) - 1
                 ELSE U!Clamp(v.sFlow, Len(list))
           start == IF at >= Visible THEN at - Visible + 1 ELSE 0
           w == U!selectFlow(v, list)
<1>1. at \in Nat /\ at + 1 \in 1..Len(list) /\ (found => list[at + 1] = v.flowRef)
  <2>1. CASE found
    <3>1. at = (CHOOSE i \in DOMAIN list : list[i] = v.flowRef) - 1 BY <2>1
    <3>2. QED BY <2>1, <3>1, Position
  <2>2. CASE ~found
    <3>1. at = U!Clamp(v.sFlow, Len(list)) BY <2>2
    <3>2. v.sFlow \in Int /\ Len(list) \in Nat /\ Len(list) # 0 BY DEF Usable
    <3>3. QED BY <2>2, <3>1, <3>2, Clamped
  <2>3. QED BY <2>1, <2>2
<1>2. w = [v EXCEPT !.sFlow = at, !.flowRef = list[at + 1], !.flowOrder = list,
                    !.shown = [row |-> v.group, flow |-> list[at + 1], start |-> start]]
  BY DEF U!selectFlow
<1> HIDE DEF at
<1>6. start \in Nat BY <1>1 DEF Sizes
<1> HIDE DEF w, start, found
<1>3. /\ w.sFlow = at /\ w.flowRef = list[at + 1] /\ w.flowOrder = list /\ DOMAIN w = Fields
      /\ w.shown.row = v.group /\ w.shown.flow = list[at + 1] /\ w.shown.start = start
      /\ w.mode = v.mode /\ w.previousMode = v.previousMode /\ w.returnMode = v.returnMode
      /\ w.overlay = v.overlay /\ w.detailOf = v.detailOf /\ w.labels = v.labels
      /\ w.selected = v.selected /\ w.scroll = v.scroll /\ w.group = v.group
  BY <1>2 DEF Usable, Fields
<1>4. Usable(w) BY <1>1, <1>3, <1>6 DEF Usable
<1>5. QED BY <1>1, <1>3, <1>4 DEF w, found

(* Whatever was selected before, what is drawn is highlighted in view; and a *)
(* row or connection that is still there stays so.                           *)
LEMMA Render ==
  ASSUME Sizes, NEW v, Usable(v), NEW now \in Seq(RowNames), NEW below \in Lists
  PROVE  LET w == U!render(v, now, below) IN
         /\ Drawn(w)
         /\ w.labels = U!rows(v.mode, now) /\ w.mode = v.mode
         /\ v.group # U!None /\ v.group \in U!ToSet(U!rows(v.mode, now)) =>
              /\ w.shown.row = v.group
              /\ (/\ v.overlay = "" /\ v.detailOf = v.group
                  /\ v.flowRef # U!None /\ v.flowRef \in U!ToSet(U!flowsOf(v.group, below)))
                   => w.shown.flow = v.flowRef
<1> DEFINE ids == U!rows(v.mode, now)
           x == U!selectRow(v, ids)
           list == IF x.group = U!None THEN <<>> ELSE U!flowsOf(x.group, below)
           found == v.group # U!None /\ v.group \in U!ToSet(ids)
           w == U!render(v, now, below)
           bare(r) == [row |-> r, flow |-> U!None, start |-> 0]
<1>1. ids \in Seq(RowsThereAre) BY RowsType DEF Usable
<1>2. /\ Usable(x) /\ x.labels = ids /\ x.mode = v.mode /\ x.overlay = v.overlay /\ x.detailOf = v.detailOf
      /\ ids = <<>> => x.group = U!None
      /\ ids # <<>> =>
           /\ x.selected + 1 \in 1..Len(ids) /\ ids[x.selected + 1] = x.group
           /\ x.selected \in x.scroll..(x.scroll + Height - 1)
      /\ found => x.group = v.group /\ x.flowRef = v.flowRef
  BY <1>1, SelectRow
<1>3. list \in Seq(FlowsThereAre) /\ \A i \in 1..Len(list) : list[i][1] = x.group[2]
  BY ListType
<1>4. w = IF x.overlay # "" THEN [x EXCEPT !.shown = bare(x.group)] ELSE U!renderBottom(x, list)
  BY DEF U!render
<1>5. found => U!None # x.group /\ ids # <<>> BY <1>2
<1> HIDE DEF ids, x, list, found, w
<1>6. ASSUME NEW y, Usable(y), y.labels = ids, y.mode = v.mode, y.group = x.group,
             y.selected = x.selected, y.scroll = x.scroll,
             w = [y EXCEPT !.shown = bare(y.group)]
      PROVE  /\ Drawn(w) /\ w.labels = ids /\ w.mode = v.mode
             /\ w.shown.row = x.group /\ w.shown.flow = U!None
  <2>1. /\ DOMAIN w = Fields /\ w.labels = ids /\ w.mode = v.mode /\ w.group = x.group
        /\ w.selected = x.selected /\ w.scroll = x.scroll /\ w.shown = bare(x.group)
        /\ w.previousMode = y.previousMode /\ w.returnMode = y.returnMode
        /\ w.sFlow = y.sFlow /\ w.flowOrder = y.flowOrder
    BY <1>6 DEF Usable, Fields
  <2>2. Usable(w)
    <3>1. /\ w.selected = y.selected /\ w.scroll = y.scroll /\ w.labels = y.labels /\ w.mode = y.mode
          /\ w.shown.start = 0
      BY <1>6, <2>1
    <3>2. Usable(y) BY <1>6
    <3>3. QED BY <2>1, <3>1, <3>2 DEF Usable
  <2>3. Highlighted(w) BY <1>2, <2>1 DEF Highlighted
  <2>4. w.shown.flow = U!None BY <2>1
  <2>5. QED BY <2>1, <2>2, <2>3, <2>4 DEF Drawn, Detailed
<1>7. CASE x.overlay # "" BY <1>2, <1>4, <1>5, <1>6, <1>7 DEF w, ids, found
<1>8. CASE x.overlay = "" /\ ids = <<>>
  <2>1. w = [x EXCEPT !.shown = bare(x.group)] BY <1>2, <1>4, <1>8 DEF U!renderBottom
  <2>2. QED BY <1>2, <1>5, <1>6, <1>8, <2>1 DEF w, ids, found
<1>9. CASE x.overlay = "" /\ ids # <<>>
  <2> DEFINE y == U!ofRow(x)
  <2>1. /\ Usable(y) /\ y.detailOf = y.group
        /\ y.labels = ids /\ y.mode = v.mode /\ y.overlay = "" /\ y.group = x.group
        /\ y.selected = x.selected /\ y.scroll = x.scroll
        /\ x.detailOf = x.group => y = x
    BY <1>2, <1>9, OfRow
  <2>2. w = IF list = <<>> THEN [y EXCEPT !.shown = bare(x.group)] ELSE U!selectFlow(y, list)
    BY <1>2, <1>4, <1>9 DEF U!renderBottom
  <2> HIDE DEF y
  <2>3. (v.flowRef \in U!ToSet(U!flowsOf(v.group, below)) /\ found) => list # <<>>
    BY <1>2, <1>5 DEF list, U!ToSet
  <2>4. CASE list = <<>>
    BY <1>2, <1>5, <1>6, <2>1, <2>2, <2>3, <2>4 DEF w, ids, found
  <2>5. CASE list # <<>>
    <3>1. /\ Usable(w)
          /\ w.labels = ids /\ w.mode = v.mode /\ w.overlay = "" /\ w.group = x.group
          /\ w.detailOf = w.group /\ w.selected = x.selected /\ w.scroll = x.scroll
          /\ w.shown.row = x.group /\ w.shown.flow = w.flowRef
          /\ w.flowOrder = list /\ w.sFlow + 1 \in 1..Len(list) /\ list[w.sFlow + 1] = w.flowRef
          /\ y.flowRef # U!None /\ y.flowRef \in U!ToSet(list) => w.flowRef = y.flowRef
      BY <1>3, <2>1, <2>2, <2>5, SelectFlow
    <3>2. Highlighted(w) BY <1>2, <3>1 DEF Highlighted
    <3>3. Detailed(w) BY <1>3, <3>1 DEF Detailed
    <3>4. ASSUME found, v.detailOf = v.group, v.flowRef # U!None,
                 v.flowRef \in U!ToSet(U!flowsOf(v.group, below))
          PROVE  w.shown.flow = v.flowRef
      <4>1. y = x /\ x.flowRef = v.flowRef BY <1>2, <2>1, <3>4
      <4>2. list = U!flowsOf(v.group, below) BY <1>2, <1>5, <3>4 DEF list
      <4>3. QED BY <3>1, <3>4, <4>1, <4>2
    <3>5. QED BY <1>2, <3>1, <3>2, <3>3, <3>4 DEF Drawn, w, ids, found
  <2>6. QED BY <2>4, <2>5
<1>10. QED BY <1>7, <1>8, <1>9
(***************************************************************************)
(* The keys and the mouse.                                                 *)
(***************************************************************************)

(* Fields that no drawing depends on.                                        *)
LEMMA Changed ==
  ASSUME NEW v, Usable(v), NEW x
  PROVE  /\ Usable([v EXCEPT !.topTab = x]) /\ Usable([v EXCEPT !.focus = x])
         /\ Usable([v EXCEPT !.overlay = x]) /\ Usable([v EXCEPT !.hostScope = x])
         /\ Usable([v EXCEPT !.filter = x]) /\ Usable([v EXCEPT !.filtering = x])
         /\ Usable([v EXCEPT !.group = x])
  BY DEF Usable, Fields

LEMMA Turned ==
  ASSUME NEW v, Usable(v), NEW x \in Modes
  PROVE  /\ Usable([v EXCEPT !.mode = x])
         /\ Usable([v EXCEPT !.previousMode = v.mode, !.mode = x])
         /\ Usable([v EXCEPT !.returnMode = v.mode, !.mode = x])
  BY DEF Usable, Fields

LEMMA TabAt == ASSUME NEW v, Usable(v), NEW x PROVE Usable(U!tabAt(v, x)) /\ U!tabAt(v, x).mode = v.mode
  BY DEF Usable, Fields, U!tabAt

LEMMA Top == ASSUME NEW v, Usable(v) PROVE Usable(U!top(v)) /\ U!top(v).mode = v.mode
  BY DEF Usable, Fields, U!top

LEMMA Leave ==
  ASSUME NEW v, Usable(v) PROVE Usable(U!leaveInterfaces(v)) /\ U!leaveInterfaces(v).mode \in Modes
  BY DEF Usable, Fields, U!leaveInterfaces

LEMMA SelectMain ==
  ASSUME NEW v, Usable(v), NEW index \in Int
  PROVE  LET w == U!selectMain(v, index) IN
         /\ Usable(w) /\ w.mode = v.mode
         /\ v.labels # <<>> => w.group = v.labels[U!Clamp(index, Len(v.labels)) + 1]
<1>1. CASE v.labels = <<>>
  <2> DEFINE i == IF index < 0 THEN 0 ELSE index
  <2>1. i \in Nat OBVIOUS
  <2>2. U!selectMain(v, index) = [v EXCEPT !.selected = i] BY <1>1 DEF U!selectMain
  <2> HIDE DEF i
  <2>3. QED BY <1>1, <2>1, <2>2 DEF Usable, Fields
<1>2. CASE v.labels # <<>>
  <2> DEFINE i == U!Clamp(index, Len(v.labels))
  <2>1. i \in Nat
    <3>1. Len(v.labels) \in Nat BY DEF Usable
    <3>2. QED BY <3>1, Clamped
  <2>2. U!selectMain(v, index) = [v EXCEPT !.selected = i, !.group = v.labels[i + 1], !.sFlow = 0,
                                           !.flowRef = U!None]
    BY <1>2 DEF U!selectMain
  <2> HIDE DEF i
  <2>3. QED BY <2>1, <2>2 DEF Usable, Fields, i
<1>3. QED BY <1>1, <1>2

LEMMA RememberFlow == ASSUME NEW v, Usable(v) PROVE Usable(U!rememberFlow(v))
<1>1. CASE v.flowOrder = <<>> BY <1>1 DEF U!rememberFlow
<1>2. CASE v.flowOrder # <<>>
  <2> DEFINE i == U!Clamp(v.sFlow, Len(v.flowOrder))
  <2>1. i \in Nat
    <3>1. Len(v.flowOrder) \in Nat /\ v.sFlow \in Int BY DEF Usable
    <3>2. QED BY <3>1, Clamped
  <2>2. U!rememberFlow(v) = [v EXCEPT !.sFlow = i, !.flowRef = v.flowOrder[i + 1]]
    BY <1>2 DEF U!rememberFlow
  <2> HIDE DEF i
  <2>3. QED BY <2>1, <2>2 DEF Usable, Fields
<1>3. QED BY <1>1, <1>2

LEMMA Bounded ==
  ASSUME NEW v, Usable(v)
  PROVE  Usable(U!bounded(v)) /\ U!bounded(v).group = v.group /\ U!bounded(v).mode = v.mode
  BY DEF Usable, Fields, U!bounded, U!lesser

LEMMA Cursor ==
  ASSUME NEW v, Usable(v), NEW n \in Nat
  PROVE  Usable([v EXCEPT !.sFlow = n]) /\ Usable([v EXCEPT !.scroll = n])
  BY DEF Usable, Fields

(* A step in the table selects the row that was drawn there.                 *)
LEMMA Move ==
  ASSUME NEW v, Usable(v), NEW delta \in Int
  PROVE  /\ Usable(U!move(v, delta))
         /\ ~v.focus /\ v.labels # <<>> =>
              /\ U!move(v, delta).mode = v.mode
              /\ U!move(v, delta).group = v.labels[U!Clamp(v.selected + delta, Len(v.labels)) + 1]
<1>1. CASE v.focus
  <2> DEFINE n == IF v.sFlow + delta < 0 THEN 0 ELSE v.sFlow + delta
             w == [v EXCEPT !.sFlow = n]
  <2>1. n \in Nat BY DEF Usable
  <2>2. U!move(v, delta) = U!bounded(U!rememberFlow(w)) BY <1>1 DEF U!move, Usable, Fields
  <2> HIDE DEF n
  <2>3. Usable(w) BY <2>1, Cursor
  <2> HIDE DEF w
  <2>4. QED BY <1>1, <2>2, <2>3, RememberFlow, Bounded
<1>2. CASE ~v.focus
  <2> DEFINE index == v.selected + delta
             w == U!selectMain(v, index)
  <2>1. index \in Int BY DEF Usable
  <2>2. U!move(v, delta) = U!bounded(w) BY <1>2 DEF U!move
  <2> HIDE DEF index
  <2>3. /\ Usable(w) /\ w.mode = v.mode
        /\ v.labels # <<>> => w.group = v.labels[U!Clamp(index, Len(v.labels)) + 1]
    BY <2>1, SelectMain
  <2> HIDE DEF w
  <2>4. QED BY <1>2, <2>2, <2>3, Bounded DEF index
<1>3. QED BY <1>1, <1>2

LEMMA Page ==
  ASSUME Sizes, NEW v, Usable(v), NEW direction \in {-1, 1} PROVE Usable(U!page(v, direction))
<1>1. CASE v.focus
  <2> DEFINE n == U!Clamp(v.sFlow + direction * Visible, Len(v.flowOrder))
             w == [v EXCEPT !.sFlow = n]
  <2>1. v.sFlow + direction * Visible \in Int /\ Len(v.flowOrder) \in Nat BY DEF Usable, Sizes
  <2>2. n \in Nat BY <2>1, Clamped
  <2>3. U!page(v, direction) = U!rememberFlow(w) BY <1>1 DEF U!page
  <2> HIDE DEF n
  <2>4. Usable(w) BY <2>2, Cursor
  <2> HIDE DEF w
  <2>5. QED BY <2>3, <2>4, RememberFlow
<1>2. CASE ~v.focus
  <2> DEFINE w == U!bounded(U!selectMain(v, v.selected + direction * Height))
             n == IF Len(w.labels) <= Height THEN 0 ELSE U!lesser(w.selected, Len(w.labels) - Height)
  <2>1. v.selected + direction * Height \in Int BY DEF Usable, Sizes
  <2>2. Usable(w) BY <2>1, SelectMain, Bounded
  <2>3. U!page(v, direction) = [w EXCEPT !.scroll = n] BY <1>2 DEF U!page
  <2> HIDE DEF w
  <2>4. n \in Nat BY <2>2 DEF Usable, Sizes, U!lesser
  <2> HIDE DEF n
  <2>5. QED BY <2>2, <2>3, <2>4, Cursor
<1>3. QED BY <1>1, <1>2
LEMMA PageNames == \A i \in 1..9 : U!Pages[i] \in Modes
<1>1. \A i \in 1..9 : i \in {1, 2, 3, 4, 5, 6, 7, 8, 9} OBVIOUS
<1>2. \A i \in {1, 2, 3, 4, 5, 6, 7, 8, 9} : U!Pages[i] \in Modes BY DEF U!Pages, Modes
<1>3. QED BY <1>1, <1>2

LEMMA PageKeys ==
  ASSUME NEW key \in {"1", "2", "3", "4", "5", "6", "7"}
  PROVE  (CHOOSE i \in 1..7 : U!topTabKeys[i] = key) \in 1..7
<1>1. \E i \in 1..7 : U!topTabKeys[i] = key BY DEF U!topTabKeys
<1>2. QED BY <1>1

LEMMA PagePresses ==
  ASSUME NEW v, Usable(v)
  PROVE  /\ Usable(U!pressInterfaces(v)) /\ Usable(U!pressNextInterface(v))
         /\ Usable(U!pressOverview(v)) /\ Usable(U!pressDomains(v)) /\ Usable(U!pressGroup(v))
         /\ \A index \in 0..6 : Usable(U!pressPage(v, index))
<1>1. Usable(U!pressInterfaces(v))
  <2> DEFINE w == IF v.mode = "INTERFACES" THEN U!leaveInterfaces(v)
                  ELSE [v EXCEPT !.returnMode = v.mode, !.mode = "INTERFACES"]
  <2>1. Usable(w)
    <3>1. CASE v.mode = "INTERFACES" BY <3>1, Leave
    <3>2. CASE v.mode # "INTERFACES" BY <3>2, Turned DEF Modes
    <3>3. QED BY <3>1, <3>2
  <2>2. U!pressInterfaces(v) = U!tabAt(U!top(w), U!topPageIndex(w.mode)) BY DEF U!pressInterfaces
  <2> HIDE DEF w
  <2>3. QED BY <2>1, <2>2, Top, TabAt
<1>2. Usable(U!pressNextInterface(v))
  <2>1. CASE Interfaces < 2 \/ v.mode \in {"LOG", "PORTS"} BY <2>1 DEF U!pressNextInterface
  <2>2. CASE ~(Interfaces < 2 \/ v.mode \in {"LOG", "PORTS"})
    <3> DEFINE next == IF ~v.hostScope \/ v.mode = "INTERFACES" THEN (v.interface % Interfaces) + 1
                       ELSE v.interface
               x == [v EXCEPT !.interface = next, !.hostScope = FALSE]
               w == U!tabAt(U!top(x), 10)
    <3>1. U!pressNextInterface(v)
            = IF w.mode = "INTERFACES" THEN [w EXCEPT !.group = <<"INTERFACES", next>>] ELSE w
      BY <2>2 DEF U!pressNextInterface
    <3> HIDE DEF next
    <3>2. Usable(x) BY DEF Usable, Fields
    <3> HIDE DEF x
    <3>3. Usable(w) BY <3>2, Top, TabAt
    <3> HIDE DEF w
    <3>4. Usable([w EXCEPT !.group = <<"INTERFACES", next>>]) BY <3>3 DEF Usable, Fields
    <3>5. QED BY <3>1, <3>3, <3>4
  <2>3. QED BY <2>1, <2>2
<1>3. Usable(U!pressOverview(v))
  <2> DEFINE w == U!leaveInterfaces(v)
  <2>1. Usable([w EXCEPT !.hostScope = TRUE]) BY Leave, Changed
  <2>2. QED BY <2>1, Top, TabAt DEF U!pressOverview
<1>4. Usable(U!pressDomains(v))
  <2> DEFINE w == U!leaveInterfaces(v)
             x == IF w.mode = "DOMAINS" THEN [w EXCEPT !.mode = w.previousMode]
                  ELSE [w EXCEPT !.previousMode = w.mode, !.mode = "DOMAINS"]
  <2>1. Usable(w) BY Leave
  <2>2. U!pressDomains(v) = U!tabAt(U!top(x), U!topPageIndex(x.mode)) BY DEF U!pressDomains
  <2> HIDE DEF w
  <2>3. w.previousMode \in Modes BY <2>1 DEF Usable
  <2>4. Usable(x)
    <3>1. CASE w.mode = "DOMAINS" BY <2>1, <2>3, <3>1 DEF Usable, Fields
    <3>2. CASE w.mode # "DOMAINS" BY <2>1, <3>2, Turned DEF Modes
    <3>3. QED BY <3>1, <3>2
  <2> HIDE DEF x
  <2>5. QED BY <2>2, <2>4, Top, TabAt
<1>5. Usable(U!pressGroup(v)) BY Top DEF U!pressGroup
<1>6. ASSUME NEW index \in 0..6 PROVE Usable(U!pressPage(v, index))
  <2> DEFINE page == U!Pages[index + 1]
             scope == v.hostScope \/ v.mode = "INTERFACES" \/ page \in {"LOG", "PORTS"}
             x == [v EXCEPT !.mode = page, !.hostScope = scope]
  <2>1. page \in Modes
    <3>1. index + 1 \in 1..9 OBVIOUS
    <3>2. QED BY <3>1, PageNames
  <2>2. U!pressPage(v, index) = U!tabAt(U!top([v EXCEPT !.mode = page,
                                       !.hostScope = @ \/ v.mode = "INTERFACES" \/ page \in {"LOG", "PORTS"}]), index)
    BY DEF U!pressPage
  <2>3. U!pressPage(v, index) = U!tabAt(U!top(x), index) BY <2>2
  <2> HIDE DEF page, scope
  <2>4. Usable(x) BY <2>1 DEF Usable, Fields
  <2> HIDE DEF x
  <2>5. QED BY <2>3, <2>4, Top, TabAt
<1>7. QED BY <1>1, <1>2, <1>3, <1>4, <1>5, <1>6

LEMMA PageKey == ASSUME NEW v, Usable(v), NEW key PROVE Usable(U!pageKey(v, key))
<1> DEFINE index == (CHOOSE i \in 1..7 : U!topTabKeys[i] = key) - 1
<1>1. CASE key \in {"1", "2", "3", "4", "5", "6", "7"}
  <2>1. U!pageKey(v, key) = U!pressPage(v, index) BY <1>1 DEF U!pageKey
  <2>2. (CHOOSE i \in 1..7 : U!topTabKeys[i] = key) \in 1..7 BY <1>1, PageKeys
  <2>3. index \in 0..6 BY <2>2
  <2> HIDE DEF index
  <2>4. QED BY <2>1, <2>3, PagePresses
<1>2. CASE key \notin {"1", "2", "3", "4", "5", "6", "7"}
  <2>1. U!pageKey(v, key) \in {U!pressInterfaces(v), U!pressNextInterface(v), U!pressOverview(v),
                               U!pressDomains(v), U!pressGroup(v), v}
    BY <1>2 DEF U!pageKey
  <2>2. QED BY <2>1, PagePresses
<1>3. QED BY <1>1, <1>2

LEMMA Escape == ASSUME NEW v, Usable(v) PROVE Usable(U!pressEscape(v))
<1> DEFINE w == IF v.focus THEN [v EXCEPT !.focus = FALSE]
                ELSE IF v.mode = "INTERFACES" THEN U!leaveInterfaces(v)
                ELSE IF v.mode = "DOMAINS" THEN [v EXCEPT !.mode = v.previousMode]
                ELSE IF v.filter # "" THEN [v EXCEPT !.filter = ""]
                ELSE [v EXCEPT !.hostScope = TRUE]
<1>1. U!pressEscape(v) = U!tabAt(w, U!topPageIndex(w.mode)) BY DEF U!pressEscape
<1>2. v.previousMode \in Modes BY DEF Usable
<1>3. Usable(w) BY <1>2, Leave, Changed, Turned
<1> HIDE DEF w
<1>4. QED BY <1>1, <1>3, TabAt

LEMMA Enter == ASSUME NEW v, Usable(v) PROVE Usable(U!pressEnter(v))
<1>1. CASE v.mode = "INTERFACES" /\ ~v.focus
  <2> DEFINE row == IF v.group # U!None /\ v.group[1] = "INTERFACES" THEN v.group[2] ELSE v.interface
             w == [v EXCEPT !.interface = row, !.hostScope = FALSE, !.mode = v.returnMode]
             x == [U!top(w) EXCEPT !.focus = v.focus]
  <2>1. U!pressEnter(v) = U!tabAt(x, U!topPageIndex(w.mode)) BY <1>1 DEF U!pressEnter
  <2> HIDE DEF row
  <2>2. Usable(w) BY DEF Usable, Fields
  <2> HIDE DEF w
  <2>3. Usable(x) BY <2>2, Top, Changed
  <2> HIDE DEF x
  <2>4. QED BY <2>1, <2>3, TabAt
<1>2. CASE ~(v.mode = "INTERFACES" /\ ~v.focus)
  <2>1. U!pressEnter(v) = [v EXCEPT !.focus = ~@] BY <1>2 DEF U!pressEnter
  <2>2. QED BY <2>1 DEF Usable, Fields
<1>3. QED BY <1>1, <1>2

LEMMA FilterKey == ASSUME NEW v, Usable(v), NEW key PROVE Usable(U!filterKey(v, key))
<1> DEFINE w == CASE key = "enter" -> [v EXCEPT !.filtering = v.filter = "invalid"]
                  [] key = "esc" -> [v EXCEPT !.filtering = FALSE, !.filter = ""]
                  [] key \in {"valid", "invalid"} -> [v EXCEPT !.filter = key]
                  [] OTHER -> v
<1>1. U!filterKey(v, key) = [w EXCEPT !.selected = 0, !.scroll = 0, !.group = U!None, !.flowRef = U!None]
  BY DEF U!filterKey
<1>2. Usable([v EXCEPT !.filtering = FALSE, !.filter = ""]) BY DEF Usable, Fields
<1>3. Usable(w)
  <2>1. w \in {[v EXCEPT !.filtering = v.filter = "invalid"], [v EXCEPT !.filtering = FALSE, !.filter = ""],
               [v EXCEPT !.filter = key], v}
    OBVIOUS
  <2>2. QED BY <1>2, <2>1, Changed
<1> HIDE DEF w
<1>4. QED BY <1>1, <1>3 DEF Usable, Fields

LEMMA HandleKey ==
  ASSUME Sizes, NEW v, Usable(v), NEW key
  PROVE  Usable(U!handleKey(v, key))
<1>1. CASE v.filtering BY <1>1, FilterKey DEF U!handleKey
<1>2. CASE ~v.filtering /\ v.overlay # ""
  <2>1. U!handleKey(v, key) \in {v, [v EXCEPT !.overlay = ""]} BY <1>2 DEF U!handleKey
  <2>2. Usable([v EXCEPT !.overlay = ""]) BY Changed
  <2>3. QED BY <2>1, <2>2
<1>3. CASE ~v.filtering /\ ~(v.overlay # "")
  <2>1. U!handleKey(v, key) \in
          {U!pressEscape(v), U!pressEnter(v), U!move(v, -1), U!move(v, 1), U!page(v, -1), U!page(v, 1), v,
           U!pageKey(v, U!topTabKey(v, 1)), U!pageKey(v, U!topTabKey(v, 10)),
           [v EXCEPT !.filtering = TRUE], [v EXCEPT !.overlay = key], U!pageKey(v, key)}
    BY <1>3 DEF U!handleKey
  <2>2. Usable(U!move(v, -1)) /\ Usable(U!move(v, 1)) BY Move
  <2>3. Usable(U!page(v, -1)) /\ Usable(U!page(v, 1)) BY Page
  <2>4. Usable([v EXCEPT !.filtering = TRUE]) /\ Usable([v EXCEPT !.overlay = key]) BY Changed
  <2>5. /\ Usable(U!pressEscape(v)) /\ Usable(U!pressEnter(v)) /\ Usable(U!pageKey(v, key))
        /\ Usable(U!pageKey(v, U!topTabKey(v, 1))) /\ Usable(U!pageKey(v, U!topTabKey(v, 10)))
    BY Escape, Enter, PageKey
  <2>6. QED BY <2>1, <2>2, <2>3, <2>4, <2>5
<1>4. QED BY <1>1, <1>2, <1>3

LEMMA Click ==
  ASSUME NEW v, Usable(v), NEW line \in Nat
  PROVE  /\ Usable(U!clickRow(v, line)) /\ Usable(U!clickFlow(v, line))
         /\ (v.scroll + line < Len(v.labels) /\ v.scroll + line < Len(U!rows(v.mode, table))) =>
              U!clickRow(v, line).group = v.labels[v.scroll + line + 1]
         /\ U!clickRow(v, line).mode = v.mode
<1> DEFINE w == [v EXCEPT !.filtering = FALSE, !.overlay = ""]
<1>1. /\ Usable(w) /\ w.labels = v.labels /\ w.mode = v.mode /\ w.flowOrder = v.flowOrder
      /\ w.scroll = v.scroll
  BY DEF Usable, Fields
<1>2. /\ Usable(U!clickRow(v, line)) /\ U!clickRow(v, line).mode = v.mode
      /\ (v.scroll + line < Len(v.labels) /\ v.scroll + line < Len(U!rows(v.mode, table))) =>
           U!clickRow(v, line).group = v.labels[v.scroll + line + 1]
  <2> DEFINE index == v.scroll + line
             x == IF index < Len(U!rows(v.mode, table)) THEN U!selectMain(w, index) ELSE w
             y == [x EXCEPT !.focus = FALSE]
  <2>1. U!clickRow(v, line) = U!tabAt(y, U!topPageIndex(v.mode)) BY DEF U!clickRow
  <2> HIDE DEF w
  <2>2. index \in Nat /\ Len(v.labels) \in Nat BY DEF Usable
  <2>3. Usable(x) /\ x.mode = v.mode
    <3>1. Usable(U!selectMain(w, index)) /\ U!selectMain(w, index).mode = w.mode
      <4>1. index \in Int BY <2>2
      <4> HIDE DEF index
      <4>2. QED BY <1>1, <4>1, SelectMain
    <3>2. QED BY <1>1, <3>1
  <2>4. ASSUME index < Len(v.labels), index < Len(U!rows(v.mode, table))
        PROVE  x.group = v.labels[index + 1]
    <3>1. x = U!selectMain(w, index) BY <2>4
    <3>2. v.labels # <<>> BY <2>2, <2>4
    <3>3. U!Clamp(index, Len(v.labels)) = index BY <2>2, <2>4 DEF U!Clamp, U!lesser
    <3>4. index \in Int BY <2>2
    <3>5. U!selectMain(w, index).group = w.labels[U!Clamp(index, Len(w.labels)) + 1]
      BY <1>1, <3>2, <3>4, SelectMain
    <3>6. QED BY <1>1, <3>1, <3>3, <3>5
  <2> HIDE DEF x, index
  <2>5. Usable(y) /\ y.mode = v.mode /\ y.group = x.group BY <2>3 DEF Usable, Fields
  <2> HIDE DEF y
  <2>6. /\ Usable(U!clickRow(v, line)) /\ U!clickRow(v, line).mode = v.mode
        /\ U!clickRow(v, line).group = x.group
    BY <2>1, <2>5 DEF U!tabAt, Usable, Fields
  <2>7. QED BY <2>4, <2>6 DEF index
<1>3. Usable(U!clickFlow(v, line))
  <2>1. CASE v.shown.flow = U!None \/ v.shown.start + line >= Len(v.flowOrder)
    BY <1>1, <2>1 DEF U!clickFlow
  <2>2. CASE ~(v.shown.flow = U!None \/ v.shown.start + line >= Len(v.flowOrder))
    <3> DEFINE n == v.shown.start + line
               x == [w EXCEPT !.sFlow = n]
    <3>1. U!clickFlow(v, line) = [U!rememberFlow(x) EXCEPT !.focus = TRUE] BY <2>2 DEF U!clickFlow
    <3>2. n \in Nat BY DEF Usable
    <3> HIDE DEF n, w
    <3>3. Usable(x) BY <1>1, <3>2, Cursor
    <3> HIDE DEF x
    <3>4. Usable(U!rememberFlow(x)) BY <3>3, RememberFlow
    <3> DEFINE y == U!rememberFlow(x)
    <3> HIDE DEF y
    <3>5. Usable([y EXCEPT !.focus = TRUE]) BY <3>4, Changed DEF y
    <3>6. QED BY <3>1, <3>5 DEF y
  <2>3. QED BY <2>1, <2>2
<1>4. QED BY <1>2, <1>3
(***************************************************************************)
(* The screen.                                                             *)
(***************************************************************************)
ScreenInv == Drawn(u) /\ table \in Seq(RowNames) /\ conns \in Lists

LEMMA ScreenStart == ASSUME Sizes, U!Init PROVE ScreenInv
<1> DEFINE v == [mode |-> "PID", previousMode |-> "PID", returnMode |-> "PID", hostScope |-> TRUE,
                 interface |-> 1, topTab |-> 0, filtering |-> FALSE, filter |-> "", overlay |-> "",
                 selected |-> 0, group |-> U!None, labels |-> <<>>, scroll |-> 0, focus |-> FALSE,
                 detailOf |-> U!None, sFlow |-> 0, flowRef |-> U!None, flowOrder |-> <<>>,
                 shown |-> [row |-> U!None, flow |-> U!None, start |-> 0]]
<1>1. u = U!render(v, <<>>, <<>>) /\ table = <<>> /\ conns = <<>> BY DEF U!Init
<1>2. Usable(v) BY DEF Usable, Fields, Modes
<1>3. <<>> \in Lists
  <2>1. <<>> \in [{} -> Seq(Connections)] OBVIOUS
  <2>2. {} \in SUBSET RowNames OBVIOUS
  <2>3. QED BY <2>1, <2>2 DEF Lists
<1>4. <<>> \in Seq(RowNames) OBVIOUS
<1> HIDE DEF v
<1>5. QED BY <1>1, <1>2, <1>3, <1>4, Render DEF ScreenInv

(* What is drawn after a step, and of what.                                  *)
LEMMA Redrawn ==
  ASSUME Sizes, ScreenInv, NEW v, Usable(v), u' = U!render(v, table', conns'),
         table' \in Seq(RowNames), conns' \in Lists
  PROVE  /\ ScreenInv'
         /\ u'.labels = U!rows(u'.mode, table') /\ u'.mode = v.mode
         /\ v.group # U!None /\ v.group \in U!ToSet(U!rows(u'.mode, table')) =>
              /\ u'.shown.row = v.group
              /\ (/\ v.overlay = "" /\ v.detailOf = v.group
                  /\ v.flowRef # U!None /\ v.flowRef \in U!ToSet(U!flowsOf(v.group, conns')))
                   => u'.shown.flow = v.flowRef
<1> DEFINE w == U!render(v, table', conns')
<1>1. /\ Drawn(w)
      /\ w.labels = U!rows(v.mode, table') /\ w.mode = v.mode
      /\ v.group # U!None /\ v.group \in U!ToSet(U!rows(v.mode, table')) =>
           /\ w.shown.row = v.group
           /\ (/\ v.overlay = "" /\ v.detailOf = v.group
               /\ v.flowRef # U!None /\ v.flowRef \in U!ToSet(U!flowsOf(v.group, conns')))
                => w.shown.flow = v.flowRef
  BY Render
<1>2. u' = w OBVIOUS
<1> HIDE DEF w
<1>3. Drawn(u)' BY <1>1, <1>2 DEF Drawn, Usable, Highlighted, Detailed
<1>4. QED BY <1>1, <1>2, <1>3 DEF ScreenInv

(* Of the inputs, those that followed is about.                              *)
LEMMA Inputs ==
  /\ \A a, b : <<a>> = <<b>> => a = b
  /\ \A a, b, c, d : <<a, b>> = <<c, d>> => a = c /\ b = d
  /\ \A a, b, c : <<a>> # <<b, c>>
<1>1. ASSUME NEW a, NEW b, NEW c PROVE <<a>> # <<b, c>>
  <2>1. Len(<<a>>) = 1 /\ Len(<<b, c>>) = 2 OBVIOUS
  <2>2. QED BY <2>1
<1>2. QED BY <1>1

LEMMA KeyStep ==
  ASSUME Sizes, ScreenInv, NEW key, U!Key(key) PROVE ScreenInv' /\ U!followed
<1> DEFINE v == U!handleKey(u, key)
<1>1. Usable(v) BY HandleKey DEF ScreenInv, Drawn
<1>2. u' = U!render(v, table', conns') /\ table' \in Seq(RowNames) /\ conns' \in Lists
  BY DEF U!Key, ScreenInv
<1> DEFINE name == IF key \in {"up", "down"} THEN key ELSE "key"
<1>3. input' = <<name>> BY DEF U!Key
<1>4. input' # <<"tick">> BY <1>3, Inputs
<1>5. \A l : input' # <<"row", l>> BY <1>3, Inputs
<1>6. ASSUME input' \in {<<"up">>, <<"down">>}, ~u.focus, ~u.filtering, u.overlay = "", U!drawn # <<>>
      PROVE  U!goesTo(U!seenAt(u.selected + (IF input' = <<"up">> THEN -1 ELSE 1)))
  <2> DEFINE delta == IF input' = <<"up">> THEN -1 ELSE 1
             i == u.selected + delta
             at == U!Clamp(i, Len(u.labels))
  <2>1. key \in {"up", "down"} /\ (input' = <<"up">> <=> key = "up") BY <1>3, <1>6, Inputs
  <2>2. v = U!move(u, delta) BY <1>6, <2>1 DEF U!handleKey
  <2>3. delta \in Int OBVIOUS
  <2>4. Usable(u) /\ u.labels # <<>> BY <1>6 DEF ScreenInv, Drawn, U!drawn
  <2>5. i \in Int /\ Len(u.labels) \in Nat \ {0} BY <2>4 DEF Usable
  <2> HIDE DEF delta
  <2>6. v.group = u.labels[at + 1] BY <1>6, <2>2, <2>3, <2>4, Move
  <2> HIDE DEF i
  <2>7. U!seenAt(i) = u.labels[at + 1]
    <3>1. at = IF i < 0 THEN 0 ELSE IF i < Len(u.labels) - 1 THEN i ELSE Len(u.labels) - 1
      BY <2>5 DEF U!Clamp, U!lesser
    <3>2. CASE i < 0 BY <2>5, <3>1, <3>2 DEF U!seenAt, U!drawn
    <3>3. CASE i >= 0 /\ i + 1 > Len(u.labels) BY <2>5, <3>1, <3>3 DEF U!seenAt, U!drawn
    <3>4. CASE i >= 0 /\ ~(i + 1 > Len(u.labels)) BY <2>5, <3>1, <3>4 DEF U!seenAt, U!drawn
    <3>5. QED BY <2>5, <3>2, <3>3, <3>4
  <2>8. at + 1 \in 1..Len(u.labels) BY <2>5, Clamped
  <2>9. v.group \in RowsThereAre BY <2>4, <2>6, <2>8 DEF Usable
  <2>10. U!goesTo(v.group)
    <3>1. v.group # U!None BY <2>9, Something
    <3> HIDE DEF v
    <3>2. QED BY <1>1, <1>2, <3>1, Redrawn DEF U!goesTo
  <2>11. U!goesTo(U!seenAt(i)) BY <2>6, <2>7, <2>10
  <2>12. QED BY <2>11 DEF i, delta
<1>7. ScreenInv'
  <2> HIDE DEF v
  <2>1. QED BY <1>1, <1>2, Redrawn
<1>8. QED BY <1>4, <1>5, <1>6, <1>7 DEF U!followed

LEMMA ClickStep ==
  ASSUME Sizes, ScreenInv, NEW where \in {"row", "flow"}, NEW line \in Nat, U!Click(where, line)
  PROVE  ScreenInv' /\ U!followed
<1> DEFINE v == IF where = "row" THEN U!clickRow(u, line) ELSE U!clickFlow(u, line)
<1>1. Usable(u) BY DEF ScreenInv, Drawn
<1>2. Usable(v) BY <1>1, Click
<1>3. /\ u' = U!render(v, table', conns') /\ table' = table
      /\ table' \in Seq(RowNames) /\ conns' \in Lists /\ input' = <<where, line>>
  BY DEF U!Click, ScreenInv
<1>4. input' # <<"tick">> /\ input' \notin {<<"up">>, <<"down">>} BY <1>3, Inputs
<1>5. ASSUME NEW l \in 0..(Height - 1), input' = <<"row", l>>,
             u.scroll + l < Len(U!drawn), u.scroll + l < Len(U!rows(u.mode, table))
      PROVE  U!goesTo(U!drawn[u.scroll + l + 1])
  <2>1. where = "row" /\ line = l BY <1>3, <1>5, Inputs
  <2>2. v.group = u.labels[u.scroll + l + 1] BY <1>1, <1>5, <2>1, Click DEF U!drawn
  <2>3. v.group \in RowsThereAre BY <1>1, <1>5, <2>2 DEF Usable, U!drawn
  <2>4. v.group # U!None BY <2>3, Something
  <2> HIDE DEF v
  <2>5. U!goesTo(v.group) BY <1>2, <1>3, <2>4, Redrawn DEF U!goesTo
  <2>6. QED BY <2>2, <2>5 DEF U!drawn
<1>6. ScreenInv'
  <2> HIDE DEF v
  <2>1. QED BY <1>2, <1>3, Redrawn
<1>7. QED BY <1>4, <1>5, <1>6 DEF U!followed

LEMMA TickStep ==
  ASSUME Sizes, ScreenInv, NEW now \in Seq(RowNames), NEW below \in Lists, U!Tick(now, below)
  PROVE  ScreenInv' /\ U!followed
<1>1. Usable(u) /\ Highlighted(u) /\ Detailed(u) BY DEF ScreenInv, Drawn
<1>2. /\ u' = U!render(u, table', conns') /\ table' \in Seq(RowNames) /\ conns' \in Lists
      /\ input' = <<"tick">>
  BY DEF U!Tick
<1>3. /\ ScreenInv'
      /\ u'.labels = U!rows(u'.mode, table') /\ u'.mode = u.mode
      /\ u.group # U!None /\ u.group \in U!ToSet(U!rows(u'.mode, table')) =>
           /\ u'.shown.row = u.group
           /\ (/\ u.overlay = "" /\ u.detailOf = u.group
               /\ u.flowRef # U!None /\ u.flowRef \in U!ToSet(U!flowsOf(u.group, conns')))
                => u'.shown.flow = u.flowRef
  BY <1>1, <1>2, Redrawn
<1>4. u.group = u.shown.row BY <1>1 DEF Highlighted
<1>5. u.shown.row # U!None => U!goesTo(u.shown.row) BY <1>3, <1>4 DEF U!goesTo
<1>6. ASSUME u.shown.row # U!None, u.shown.flow # U!None, u'.shown.row = u.shown.row,
             u.shown.flow \in U!ToSet(U!flowsOf(u.shown.row, conns'))
      PROVE  u'.shown.flow = u.shown.flow
  <2>1. u'.group = u.group
    <3>1. Highlighted(u)' BY <1>3 DEF ScreenInv, Drawn
    <3>2. u'.group = u'.shown.row BY <3>1 DEF Highlighted
    <3>3. QED BY <1>4, <1>6, <3>2
  <2>2. u'.labels # <<>> /\ u'.selected + 1 \in 1..Len(u'.labels) /\ u'.labels[u'.selected + 1] = u'.group
    <3>1. Highlighted(u)' BY <1>3 DEF ScreenInv, Drawn
    <3>2. u'.group # U!None BY <1>4, <1>6, <2>1
    <3>3. QED BY <3>1, <3>2 DEF Highlighted
  <2>3. u'.labels \in Seq(RowsThereAre) BY <1>3 DEF ScreenInv, Drawn, Usable
  <2>4. u.group \in U!ToSet(U!rows(u'.mode, table'))
    <3> DEFINE ids == u'.labels
    <3>1. u'.selected + 1 \in DOMAIN ids /\ ids[u'.selected + 1] = u.group BY <2>1, <2>2, <2>3
    <3> HIDE DEF ids
    <3>2. u.group \in U!ToSet(ids) BY <3>1 DEF U!ToSet
    <3>3. ids = U!rows(u'.mode, table') BY <1>3 DEF ids
    <3>4. QED BY <3>2, <3>3
  <2>5. u.overlay = "" /\ u.detailOf = u.group /\ u.flowRef = u.shown.flow
    BY <1>1, <1>6 DEF Detailed
  <2>6. QED BY <1>3, <1>4, <1>6, <2>4, <2>5
<1>7. input' \notin {<<"up">>, <<"down">>} /\ \A l : input' # <<"row", l>> BY <1>2, Inputs
<1>8. QED BY <1>3, <1>5, <1>6, <1>7 DEF U!followed

LEMMA ScreenStep == ASSUME Sizes, ScreenInv, ScreenNext PROVE ScreenInv' /\ U!followed
<1>1. ASSUME NEW now \in Seq(RowNames), NEW below \in Lists, U!Change(now, below)
      PROVE  ScreenInv' /\ U!followed
  <2>1. u' = u /\ table' = now /\ conns' = below /\ input' = <<"change">> BY <1>1 DEF U!Change
  <2>2. input' \notin {<<"up">>, <<"down">>, <<"tick">>} /\ \A l : input' # <<"row", l>>
    BY <2>1, Inputs
  <2>3. QED BY <2>1, <2>2 DEF U!followed, ScreenInv, Drawn, Usable, Highlighted, Detailed
<1>2. CASE U!ToggleCapture
  <2>1. /\ u' = U!render(u, table', conns') /\ table' \in Seq(RowNames) /\ conns' \in Lists
        /\ input' = <<"c">>
    BY <1>2 DEF U!ToggleCapture, ScreenInv
  <2>2. input' \notin {<<"up">>, <<"down">>, <<"tick">>} /\ \A l : input' # <<"row", l>>
    BY <2>1, Inputs
  <2>3. ScreenInv' BY <2>1, Redrawn DEF ScreenInv, Drawn
  <2>4. QED BY <2>2, <2>3 DEF U!followed
<1>3. QED BY <1>1, <1>2, KeyStep, ClickStep, TickStep DEF ScreenNext

(***************************************************************************)
(* The row and the connection highlighted are those whose details are shown, *)
(* and in view, whatever was pressed and however the table changed (render,  *)
(* handleKey of ui.go), for any number of rows, connections, interfaces and  *)
(* lines.                                                                  *)
(***************************************************************************)
THEOREM HighlightInView == ASSUME Sizes PROVE ScreenSpec => []U!InView
<1>1. U!Init => ScreenInv BY ScreenStart
<1>2. ScreenInv /\ [ScreenNext]_U!vars => ScreenInv'
  <2> SUFFICES ASSUME ScreenInv, [ScreenNext]_U!vars PROVE ScreenInv' OBVIOUS
  <2>1. CASE UNCHANGED U!vars
    BY <2>1 DEF U!vars, ScreenInv, Drawn, Usable, Highlighted, Detailed
  <2>2. QED BY <2>1, ScreenStep
<1>3. ScreenInv => U!InView
  <2> SUFFICES ASSUME ScreenInv PROVE U!InView OBVIOUS
  <2>1. Highlighted(u) /\ Detailed(u) BY DEF ScreenInv, Drawn
  <2>2. QED BY <2>1 DEF Highlighted, Detailed, U!InView
<1>4. QED BY <1>1, <1>2, <1>3, PTL DEF ScreenSpec

(***************************************************************************)
(* The highlight stays with its row and its connection when a tick sorts the *)
(* table anew, and a step of the cursor or a click goes to what was drawn    *)
(* there, however the rows are ordered by then (selectMain, render).         *)
(***************************************************************************)
THEOREM Follows == ASSUME Sizes PROVE ScreenSpec => HighlightFollows
<1>1. U!Init => ScreenInv BY ScreenStart
<1>2. ScreenInv /\ [ScreenNext]_U!vars => ScreenInv' /\ [U!followed]_screen
  <2> SUFFICES ASSUME ScreenInv, [ScreenNext]_U!vars PROVE ScreenInv' /\ [U!followed]_screen OBVIOUS
  <2>1. CASE UNCHANGED U!vars
    BY <2>1 DEF U!vars, screen, ScreenInv, Drawn, Usable, Highlighted, Detailed
  <2>2. QED BY <2>1, ScreenStep
<1>3. QED BY <1>1, <1>2, PTL DEF ScreenSpec, HighlightFollows

(***************************************************************************)
(* The rates of processes, for any number of them, of namespaces and bytes: *)
(* what a process has and what it had in the sample before differ by what it *)
(* transferred since, whatever was forgotten.                              *)
(***************************************************************************)
SamplesInTime ==
  /\ V_now \in Nat /\ lastSample \in Nat /\ lastSample <= V_now
  /\ interface \in Namespaces /\ of \subseteq Namespaces
Seen ==
  /\ DOMAIN pidIO = Namespaces /\ DOMAIN pidSeen = Namespaces
  /\ \A n \in Namespaces :
       /\ DOMAIN pidIO[n] \subseteq Processes /\ DOMAIN pidSeen[n] = DOMAIN pidIO[n]
       /\ \A p \in DOMAIN pidIO[n] :
            /\ pidIO[n][p] \in 0..MaxTotal
            /\ pidSeen[n][p] \in Nat /\ V_now - pidSeen[n][p] <= IdleFor
SampledBefore ==
  /\ grown \in [Namespaces -> [Processes -> Nat]]
  /\ \A p \in DOMAIN pidPrevious : pidPrevious[p] \in Nat
  /\ lastSample = 0 => DOMAIN pidPrevious = {}
Balanced ==
  \A n \in of, p \in Processes : V!Of(pidIO[n], p) = V!Of(pidPrevious, p) + grown[n][p]
RatesInv == SamplesInTime /\ Seen /\ SampledBefore /\ Balanced

LEMMA RatesStart == ASSUME V!Init PROVE RatesInv
<1>1. /\ pidIO = [n \in Namespaces |-> <<>>] /\ pidSeen = pidIO /\ interface \in Namespaces
      /\ pidPrevious = <<>> /\ lastSample = 0 /\ V_now = 1
      /\ grown = [n \in Namespaces |-> [p \in Processes |-> 0]] /\ of = Namespaces
  BY DEF V!Init, V!Nothing
<1>2. DOMAIN <<>> = {} OBVIOUS
<1>3. SamplesInTime /\ SampledBefore BY <1>1, <1>2 DEF SamplesInTime, SampledBefore
<1>4. Seen BY <1>1, <1>2 DEF Seen
<1>5. Balanced BY <1>1, <1>2 DEF Balanced, V!Of
<1>6. QED BY <1>3, <1>4, <1>5 DEF RatesInv

LEMMA ReportStep ==
  ASSUME RatesInv, NEW n \in Namespaces, NEW p \in Processes, NEW bytes \in Reports,
         V!Report(n, p, bytes)
  PROVE  RatesInv' /\ lastSample' = lastSample
<1>1. /\ V!Of(pidIO[n], p) + bytes <= MaxTotal
      /\ pidIO' = [pidIO EXCEPT ![n] = V!With(pidIO[n], p, V!Of(pidIO[n], p) + bytes)]
      /\ pidSeen' = [pidSeen EXCEPT ![n] = V!With(pidSeen[n], p, V_now)]
      /\ grown' = [grown EXCEPT ![n][p] = @ + bytes]
      /\ UNCHANGED <<interface, pidPrevious, lastSample, V_now, of>>
  BY DEF V!Report
<1> DEFINE total == V!Of(pidIO[n], p) + bytes
<1>2. V!Of(pidIO[n], p) \in 0..MaxTotal /\ bytes \in Nat /\ MaxTotal \in Nat /\ total \in 0..MaxTotal
  BY <1>1, RatesAssumption DEF RatesInv, Seen, V!Of
<1>3. /\ DOMAIN pidIO' = Namespaces /\ DOMAIN pidSeen' = Namespaces
      /\ pidIO'[n] = V!With(pidIO[n], p, total) /\ pidSeen'[n] = V!With(pidSeen[n], p, V_now)
      /\ \A m \in Namespaces \ {n} : pidIO'[m] = pidIO[m] /\ pidSeen'[m] = pidSeen[m]
  BY <1>1 DEF RatesInv, Seen
<1> HIDE DEF total
<1>4. /\ DOMAIN pidIO'[n] = DOMAIN pidIO[n] \cup {p} /\ DOMAIN pidSeen'[n] = DOMAIN pidSeen[n] \cup {p}
      /\ pidIO'[n][p] = total /\ pidSeen'[n][p] = V_now
      /\ \A q \in DOMAIN pidIO[n] \ {p} : pidIO'[n][q] = pidIO[n][q]
      /\ \A q \in DOMAIN pidSeen[n] \ {p} : pidSeen'[n][q] = pidSeen[n][q]
  BY <1>3 DEF V!With
<1>5. SamplesInTime' /\ V_now - V_now <= IdleFor /\ V_now \in Nat /\ V_now' = V_now
  BY <1>1, RatesAssumption DEF RatesInv, SamplesInTime
<1>6. Seen'
  <2>1. ASSUME NEW m \in Namespaces \ {n}
        PROVE  /\ DOMAIN pidIO'[m] \subseteq Processes /\ DOMAIN pidSeen'[m] = DOMAIN pidIO'[m]
               /\ \A q \in DOMAIN pidIO'[m] :
                    /\ pidIO'[m][q] \in 0..MaxTotal
                    /\ pidSeen'[m][q] \in Nat /\ V_now' - pidSeen'[m][q] <= IdleFor
    BY <1>3, <1>5 DEF RatesInv, Seen
  <2>2. DOMAIN pidIO'[n] \subseteq Processes /\ DOMAIN pidSeen'[n] = DOMAIN pidIO'[n]
    BY <1>4 DEF RatesInv, Seen
  <2>3. ASSUME NEW q \in DOMAIN pidIO'[n]
        PROVE  /\ pidIO'[n][q] \in 0..MaxTotal
               /\ pidSeen'[n][q] \in Nat /\ V_now' - pidSeen'[n][q] <= IdleFor
    <3>1. CASE q = p BY <1>2, <1>4, <1>5, <3>1
    <3>2. CASE q # p
      <4>1. q \in DOMAIN pidIO[n] /\ q \in DOMAIN pidSeen[n] BY <1>4, <3>2 DEF RatesInv, Seen
      <4>2. pidIO'[n][q] = pidIO[n][q] /\ pidSeen'[n][q] = pidSeen[n][q] BY <1>4, <3>2, <4>1
      <4>3. QED BY <1>5, <4>1, <4>2 DEF RatesInv, Seen
    <3>3. QED BY <3>1, <3>2
  <2>4. QED BY <1>3, <2>1, <2>2, <2>3 DEF Seen
<1>7. /\ grown' \in [Namespaces -> [Processes -> Nat]]
      /\ grown'[n][p] = grown[n][p] + bytes
      /\ \A m \in Namespaces, q \in Processes : m # n \/ q # p => grown'[m][q] = grown[m][q]
  BY <1>1, <1>2 DEF RatesInv, SampledBefore
<1>8. SampledBefore' BY <1>1, <1>7 DEF RatesInv, SampledBefore
<1>9. Balanced'
  <2> SUFFICES ASSUME NEW m \in of, NEW q \in Processes
               PROVE  V!Of(pidIO'[m], q) = V!Of(pidPrevious, q) + grown'[m][q]
    BY <1>1 DEF Balanced
  <2>1. /\ m \in Namespaces /\ V!Of(pidIO[m], q) = V!Of(pidPrevious, q) + grown[m][q]
        /\ V!Of(pidPrevious, q) \in Nat /\ grown[m][q] \in Nat
    BY DEF RatesInv, Balanced, SamplesInTime, SampledBefore, V!Of
  <2>2. CASE m = n /\ q = p
    <3>1. V!Of(pidIO'[n], p) = total BY <1>4 DEF V!Of
    <3>2. QED BY <1>2, <1>7, <2>1, <2>2, <3>1 DEF total
  <2>3. CASE m = n /\ q # p
    <3>1. V!Of(pidIO'[n], q) = V!Of(pidIO[n], q) BY <1>4, <2>3 DEF V!Of
    <3>2. QED BY <1>7, <2>1, <2>3, <3>1
  <2>4. CASE m # n BY <1>3, <1>7, <2>1, <2>4
  <2>5. QED BY <2>2, <2>3, <2>4
<1>10. QED BY <1>1, <1>5, <1>6, <1>8, <1>9 DEF RatesInv

(* What expire leaves: what it keeps is as it was.                           *)
LEMMA ForgetStep ==
  ASSUME RatesInv, NEW passed \in 0..2, V!Tick(passed)
  PROVE  /\ V_now' \in Nat /\ V_now' = V_now + passed /\ interface' = interface
         /\ Seen'
         /\ \A n \in Namespaces : /\ V!kept(n) \subseteq DOMAIN pidIO[n] /\ DOMAIN pidIO'[n] = V!kept(n)
                                  /\ \A p \in V!kept(n) : pidIO'[n][p] = pidIO[n][p]
         /\ passed = 0 => \A n \in Namespaces : V!kept(n) = DOMAIN pidIO[n]
<1>1. /\ V_now' = V_now + passed /\ interface' = interface
      /\ pidIO' = [n \in Namespaces |-> [p \in V!kept(n) |-> pidIO[n][p]]]
      /\ pidSeen' = [n \in Namespaces |-> [p \in V!kept(n) |-> pidSeen[n][p]]]
  BY DEF V!Tick
<1>2. V_now' \in Nat BY <1>1 DEF RatesInv, SamplesInTime
<1>3. \A n \in Namespaces : V!kept(n) = {p \in DOMAIN pidIO[n] : V_now' - pidSeen[n][p] <= IdleFor}
  BY DEF V!kept
<1>4. \A n \in Namespaces :
        /\ V!kept(n) \subseteq DOMAIN pidIO[n] /\ DOMAIN pidIO'[n] = V!kept(n)
        /\ DOMAIN pidSeen'[n] = V!kept(n)
        /\ \A p \in V!kept(n) : pidIO'[n][p] = pidIO[n][p] /\ pidSeen'[n][p] = pidSeen[n][p]
  BY <1>1, <1>3
<1>5. DOMAIN pidIO' = Namespaces /\ DOMAIN pidSeen' = Namespaces BY <1>1
<1>6. Seen'
  <2>1. ASSUME NEW n \in Namespaces, NEW p \in V!kept(n)
        PROVE  /\ p \in DOMAIN pidIO[n] /\ pidIO[n][p] \in 0..MaxTotal
               /\ pidSeen[n][p] \in Nat /\ V_now' - pidSeen[n][p] <= IdleFor
    BY <1>3 DEF RatesInv, Seen
  <2>2. \A n \in Namespaces : DOMAIN pidIO[n] \subseteq Processes BY DEF RatesInv, Seen
  <2>3. QED BY <1>4, <1>5, <2>1, <2>2 DEF Seen
<1>7. ASSUME passed = 0, NEW n \in Namespaces PROVE V!kept(n) = DOMAIN pidIO[n]
  <2>1. V_now' = V_now BY <1>1, <1>7 DEF RatesInv, SamplesInTime
  <2>2. \A p \in DOMAIN pidIO[n] : V_now - pidSeen[n][p] <= IdleFor BY DEF RatesInv, Seen
  <2>3. QED BY <1>3, <2>1, <2>2
<1>8. QED BY <1>1, <1>2, <1>4, <1>6, <1>7

LEMMA Wraps ==
  ASSUME NEW old \in Nat, NEW more \in Nat, old + more <= MaxTotal
  PROVE  (old + more + Space - old) % Space = more
<1>1. more < Space /\ Space \in Nat \ {0} BY RatesAssumption
<1>2. old + more + Space - old = more + Space BY <1>1
<1>3. (more + Space) % Space = more BY <1>1
<1>4. QED BY <1>2, <1>3

LEMMA TickRates ==
  ASSUME RatesInv, NEW passed \in 0..2, V!Tick(passed)
  PROVE  RatesInv' /\ V!ratesAreGrowth
<1> DEFINE seconds == IF lastSample = 0 THEN 0 ELSE V_now' - lastSample
           known == pidIO'[interface]
<1>1. /\ V_now' \in Nat /\ V_now' = V_now + passed /\ interface' = interface
      /\ Seen'
      /\ \A n \in Namespaces :
           /\ V!kept(n) \subseteq DOMAIN pidIO[n] /\ DOMAIN pidIO'[n] = V!kept(n)
           /\ \A p \in V!kept(n) : pidIO'[n][p] = pidIO[n][p]
      /\ passed = 0 => \A n \in Namespaces : V!kept(n) = DOMAIN pidIO[n]
  BY ForgetStep
<1>2. /\ SamplesInTime /\ SampledBefore /\ Balanced /\ Seen BY DEF RatesInv
<1>3. /\ V_now \in Nat /\ lastSample \in Nat /\ lastSample <= V_now /\ passed \in Nat
      /\ interface \in Namespaces /\ of \subseteq Namespaces
  BY <1>2 DEF SamplesInTime
<1>4. CASE seconds = 0
  <2>1. /\ lastSample' = (IF lastSample = 0 THEN V_now' ELSE lastSample)
        /\ grown' = [n \in Namespaces |-> [p \in Processes |-> IF p \in V!kept(n) THEN grown[n][p] ELSE 0]]
        /\ UNCHANGED <<pidPrevious, pidRates, of>>
    BY <1>4 DEF V!Tick
  <2>2. SamplesInTime' BY <1>1, <1>3, <2>1 DEF SamplesInTime
  <2>3. SampledBefore' BY <1>2, <1>3, <2>1 DEF SampledBefore
  <2>4. Balanced'
    <3> SUFFICES ASSUME NEW n \in of, NEW p \in Processes
                 PROVE  V!Of(pidIO'[n], p) = V!Of(pidPrevious, p) + grown'[n][p]
      BY <2>1 DEF Balanced
    <3>1. n \in Namespaces /\ V!Of(pidIO[n], p) = V!Of(pidPrevious, p) + grown[n][p]
      BY <1>2, <1>3 DEF Balanced
    <3>2. CASE p \in V!kept(n)
      <4>1. V!Of(pidIO'[n], p) = V!Of(pidIO[n], p) BY <1>1, <3>1, <3>2 DEF V!Of
      <4>2. grown'[n][p] = grown[n][p] BY <2>1, <3>1, <3>2
      <4>3. QED BY <3>1, <4>1, <4>2
    <3>3. CASE p \notin V!kept(n) /\ lastSample = 0
      <4>1. V!Of(pidIO'[n], p) = 0 BY <1>1, <3>1, <3>3 DEF V!Of
      <4>2. grown'[n][p] = 0 BY <2>1, <3>1, <3>3
      <4>3. V!Of(pidPrevious, p) = 0 BY <1>2, <3>3 DEF SampledBefore, V!Of
      <4>4. QED BY <4>1, <4>2, <4>3
    <3>4. CASE p \notin V!kept(n) /\ lastSample # 0
      <4>1. passed = 0 BY <1>1, <1>3, <1>4, <3>4
      <4>2. p \notin DOMAIN pidIO[n] /\ p \notin DOMAIN pidIO'[n] BY <1>1, <3>1, <3>4, <4>1
      <4>3. V!Of(pidIO[n], p) = 0 /\ V!Of(pidIO'[n], p) = 0 BY <4>2 DEF V!Of
      <4>4. grown[n][p] \in Nat /\ V!Of(pidPrevious, p) \in Nat BY <1>2, <3>1 DEF SampledBefore, V!Of
      <4>5. grown[n][p] = 0 /\ V!Of(pidPrevious, p) = 0 BY <3>1, <4>3, <4>4
      <4>6. grown'[n][p] = 0 BY <2>1, <3>1, <3>4
      <4>7. QED BY <4>3, <4>5, <4>6
    <3>5. QED BY <3>2, <3>3, <3>4
  <2>5. V!ratesAreGrowth BY <2>1 DEF V!ratesAreGrowth
  <2>6. QED BY <1>1, <2>2, <2>3, <2>4, <2>5 DEF RatesInv
<1>5. CASE seconds # 0
  <2>1. /\ pidRates' = [p \in DOMAIN known |-> IF p \in DOMAIN known
                          THEN V!rateOf(known[p], V!Of(pidPrevious, p), seconds) ELSE pidRates[p]]
        /\ pidPrevious' = [p \in DOMAIN known |-> IF p \in DOMAIN known THEN known[p] ELSE pidPrevious[p]]
        /\ lastSample' = V_now' /\ grown' = [n \in Namespaces |-> [p \in Processes |-> 0]]
        /\ of' = {interface}
    BY <1>5 DEF V!Tick, V!previousKept, V!Nothing
  <2>2. lastSample # 0 /\ seconds = V_now' - lastSample /\ seconds \in Nat BY <1>1, <1>3, <1>5
  <2>3. SamplesInTime' BY <1>1, <1>3, <2>1 DEF SamplesInTime
  <2> HIDE DEF seconds
  <2>4. \A p \in DOMAIN known : known[p] \in 0..MaxTotal BY <1>1, <1>3 DEF Seen
  <2>5. /\ DOMAIN pidPrevious' = DOMAIN known /\ DOMAIN pidRates' = DOMAIN known
        /\ \A p \in DOMAIN known : /\ pidPrevious'[p] = known[p]
                                   /\ pidRates'[p] = V!rateOf(known[p], V!Of(pidPrevious, p), seconds)
    BY <2>1
  <2>6. V_now' # 0 BY <1>1, <1>3, <2>2
  <2>7. SampledBefore' BY <2>1, <2>4, <2>5, <2>6 DEF SampledBefore
  <2>8. Balanced'
    <3> SUFFICES ASSUME NEW p \in Processes
                 PROVE  V!Of(pidIO'[interface], p) = V!Of(pidPrevious', p) + grown'[interface][p]
      BY <2>1 DEF Balanced
    <3>1. grown'[interface][p] = 0 BY <1>3, <2>1
    <3>2. V!Of(known, p) \in Nat /\ V!Of(pidPrevious', p) = V!Of(known, p) BY <2>4, <2>5 DEF V!Of
    <3>3. QED BY <3>1, <3>2
  <2>9. ASSUME interface \in of, NEW p \in DOMAIN known
        PROVE  pidRates'[p] = grown[interface][p] \div (lastSample' - lastSample)
    <3> DEFINE old == V!Of(pidPrevious, p)
               more == grown[interface][p]
    <3>1. /\ known[p] = pidIO[interface][p] /\ p \in DOMAIN pidIO[interface] /\ p \in Processes
      BY <1>1, <1>2, <1>3, <2>9 DEF Seen
    <3>2. known[p] = old + more BY <1>2, <2>9, <3>1 DEF Balanced, V!Of
    <3>3. old \in Nat /\ more \in Nat BY <1>2, <1>3, <3>1 DEF SampledBefore, V!Of
    <3>4. known[p] <= MaxTotal BY <2>4
    <3> HIDE DEF old, more
    <3>5. (known[p] + Space - old) % Space = more BY <3>2, <3>3, <3>4, Wraps
    <3>6. V!rateOf(known[p], old, seconds) = more \div seconds BY <3>5 DEF V!rateOf
    <3>7. QED BY <2>1, <2>2, <2>5, <3>6 DEF old, more
  <2>10. V!ratesAreGrowth BY <2>5, <2>9 DEF V!ratesAreGrowth
  <2>11. QED BY <1>1, <2>3, <2>7, <2>8, <2>10 DEF RatesInv
<1>6. QED BY <1>4, <1>5

LEMMA RatesStep == ASSUME RatesInv, V!Next PROVE RatesInv' /\ V!ratesAreGrowth
<1>1. ASSUME NEW n \in Namespaces, V!Show(n) PROVE RatesInv' /\ V!ratesAreGrowth
  <2>1. interface' = n /\ UNCHANGED <<pidIO, pidSeen, pidPrevious, pidRates, lastSample, V_now, grown, of>>
    BY <1>1 DEF V!Show
  <2>2. QED
    BY <2>1 DEF RatesInv, SamplesInTime, Seen, SampledBefore, Balanced, V!ratesAreGrowth
<1>2. ASSUME NEW n \in Namespaces, NEW p \in Processes, NEW bytes \in Reports, V!Report(n, p, bytes)
      PROVE  RatesInv' /\ V!ratesAreGrowth
  BY <1>2, ReportStep DEF V!ratesAreGrowth
<1>3. QED BY <1>1, <1>2, TickRates DEF V!Next

(***************************************************************************)
(* The rate shown of a process is what it transferred since the sample before *)
(* (sampleAll of ui.go): no difference of counters wraps, although expire     *)
(* forgets processes that come back, for any number of processes, namespaces, *)
(* bytes and seconds.                                                      *)
(***************************************************************************)
THEOREM RatesRight == RatesSpec => [][V!ratesAreGrowth]_rates
<1>1. V!Init => RatesInv BY RatesStart
<1>2. RatesInv /\ [V!Next]_rates => RatesInv' /\ [V!ratesAreGrowth]_rates
  <2> SUFFICES ASSUME RatesInv, [V!Next]_rates PROVE RatesInv' /\ [V!ratesAreGrowth]_rates OBVIOUS
  <2>1. CASE UNCHANGED rates
    BY <2>1 DEF rates, RatesInv, SamplesInTime, Seen, SampledBefore, Balanced
  <2>2. QED BY <2>1, RatesStep
<1>3. QED BY <1>1, <1>2, PTL DEF RatesSpec

(***************************************************************************)
(* Together: what is dropped of the trends, and what is sampled of processes. *)
(***************************************************************************)
THEOREM TrendsStay == HostSpec /\ RatesSpec => TrendsKept
  BY RingsKept, RatesRight, PTL DEF TrendsKept

(***************************************************************************)
(* Recordings, for any number of connections and frames and any limits of    *)
(* time and bytes.                                                          *)
(***************************************************************************)
RecordingSpec == R!Init /\ [][R!Next]_R!vars

(* Frames have a size; ages are numbers.                                     *)
Recordable ==
  /\ MaxAge \in Nat /\ HistoryLimit \in Nat /\ FileLimit \in Nat /\ Duration \in Nat
  /\ \A f \in Frames : f[3] \in Nat

(***************************************************************************)
(* Bytes of frames: what a fold adds.                                       *)
(***************************************************************************)
Sized(s, n) == DOMAIN s = 1..n /\ \A i \in 1..n : s[i].size \in Nat

LEMMA BytesFold ==
  ASSUME NEW n \in Nat, NEW s, Sized(s, n)
  PROVE  \E sum \in [0..n -> Nat] : /\ sum[0] = 0 /\ R!Bytes(s) = sum[n]
                                    /\ \A k \in 1..n : sum[k] = sum[k - 1] + s[k].size
<1> DEFINE Defines(g) ==
      g = [z \in SUBSET (DOMAIN s) |->
             IF z = {} THEN 0 ELSE g[z \ {R!Max(z)}] + s[R!Max(z)].size]
<1>1. R!Bytes(s) = (CHOOSE g : Defines(g))[DOMAIN s]
  BY DEF R!Bytes, R!FoldLeft, R!MapThenFoldSet
<1> DEFINE step == [x \in Nat \X (1..n) |-> x[1] + s[x[2]].size]
<1>2. DOMAIN s = 1..n /\ \A i \in 1..n : s[i].size \in Nat BY DEF Sized
<1>3. PICK up : up = step OBVIOUS
<1>4. \A a \in Nat, i \in 1..n : up[<<a, i>>] = a + s[i].size BY <1>3
<1>5. up \in [Nat \X (1..n) -> Nat] BY <1>2, <1>3
<1> HIDE DEF step
<1>6. PICK f \in [SUBSET (1..n) -> Nat] : \A z \in SUBSET (1..n) :
        f[z] = IF z = {} THEN 0 ELSE up[<<f[z \ {Topmost(z)}], Topmost(z)>>]
  <2>1. 0 \in Nat OBVIOUS
  <2>2. \E g \in [SUBSET (1..n) -> Nat] : FoldsTo(g, n, 0, up) BY <1>5, <2>1, FoldExists
  <2>3. QED BY <2>2 DEF FoldsTo
<1>7. \A z : R!Max(z) = Topmost(z) BY DEF R!Max, Topmost
<1>8. ASSUME NEW z \in SUBSET (1..n), z # {} PROVE Topmost(z) \in z
  <2>1. z \in SUBSET Int /\ IsFiniteSet(z)
    <3>1. IsFiniteSet(1..n) BY FS_Interval
    <3>2. IsFiniteSet(z) BY <3>1, FS_Subset
    <3>3. QED BY <3>2
  <2>2. \E m \in z : \A x \in z : x <= m BY <1>8, <2>1, Greatest
  <2>3. \E m \in z : \A x \in z : m >= x BY <2>1, <2>2
  <2>4. QED BY <2>3 DEF Topmost
<1>9. ASSUME NEW z \in SUBSET (1..n)
      PROVE  f[z] = IF z = {} THEN 0 ELSE f[z \ {R!Max(z)}] + s[R!Max(z)].size
  <2>1. CASE z = {} BY <1>6, <2>1
  <2>2. CASE z # {}
    <3>1. PICK m \in 1..n : m = Topmost(z) BY <1>8, <2>2
    <3>2. z \ {m} \in SUBSET (1..n) BY <3>1
    <3>3. f[z \ {m}] \in Nat BY <3>2
    <3>4. f[z] = up[<<f[z \ {m}], m>>] BY <1>6, <2>2, <3>1
    <3>5. f[z] = f[z \ {m}] + s[m].size BY <1>4, <3>3, <3>4
    <3>6. QED BY <1>7, <2>2, <3>1, <3>5
  <2>3. QED BY <2>1, <2>2
<1>10. Defines(f)
  <2>1. DOMAIN f = SUBSET (1..n) OBVIOUS
  <2>2. QED BY <1>2, <1>9, <2>1
<1>11. PICK g : g = CHOOSE h : Defines(h) OBVIOUS
<1>12. Defines(g) BY <1>10, <1>11
<1>13. ASSUME NEW z \in SUBSET (1..n)
       PROVE  g[z] = IF z = {} THEN 0 ELSE g[z \ {Topmost(z)}] + s[Topmost(z)].size
  BY <1>2, <1>7, <1>12
<1>14. R!Bytes(s) = g[1..n] BY <1>1, <1>2, <1>11
<1> HIDE DEF Defines
<1>15. PICK sum : sum = [k \in 0..n |-> g[1..k]] OBVIOUS
<1>16. sum[0] = 0
  <2>1. 1..0 = {} /\ {} \in SUBSET (1..n) OBVIOUS
  <2>2. g[{}] = 0 BY <1>13, <2>1
  <2>3. QED BY <1>15, <2>1, <2>2
<1>17. ASSUME NEW k \in 1..n PROVE sum[k] = sum[k - 1] + s[k].size
  <2>1. PICK z \in SUBSET (1..n) : z = 1..k OBVIOUS
  <2>2. z # {} /\ Topmost(z) = k
    <3>1. k \in Int /\ z \in SUBSET Int /\ k \in z /\ \A y \in z : k >= y BY <2>1
    <3>2. Topmost(z) = k BY <3>1, TopmostIs
    <3>3. QED BY <3>1, <3>2
  <2>3. z \ {k} = 1..(k - 1) BY <2>1
  <2>4. g[z] = g[z \ {k}] + s[k].size BY <1>13, <2>2
  <2>5. sum[k] = g[z] /\ sum[k - 1] = g[z \ {k}]
    <3>1. PICK j \in 0..n : j = k - 1 OBVIOUS
    <3>2. sum[j] = g[1..j] /\ sum[k] = g[1..k] BY <1>15
    <3>3. QED BY <2>1, <2>3, <3>1, <3>2
  <2>6. QED BY <2>4, <2>5
<1>18. \A k \in 0..n : sum[k] \in Nat
  <2> DEFINE P == {k \in 0..n : sum[k] \in Nat}
  <2>1. 0 \in P BY <1>16
  <2>2. ASSUME NEW k \in 0..n, k < n, k \in P PROVE k + 1 \in P
    <3>1. k + 1 \in 1..n /\ (k + 1) - 1 = k BY <2>2
    <3>2. sum[k + 1] = sum[(k + 1) - 1] + s[k + 1].size BY <1>17, <3>1
    <3>3. sum[k] \in Nat /\ s[k + 1].size \in Nat BY <1>2, <2>2, <3>1
    <3>4. QED BY <3>1, <3>2, <3>3
  <2> HIDE DEF P
  <2>3. 0..n \subseteq P BY <2>1, <2>2, IntervalInduction
  <2>4. QED BY <2>3 DEF P
<1>19. sum \in [0..n -> Nat] BY <1>15, <1>18
<1>20. R!Bytes(s) = sum[n] BY <1>14, <1>15
<1>21. QED BY <1>16, <1>17, <1>19, <1>20

(* Two sequences of the same sizes have the same bytes; one more adds its own. *)
LEMMA BytesOfMore ==
  ASSUME NEW n \in Nat, NEW s, Sized(s, n), NEW m \in Nat, NEW t, Sized(t, m), n <= m,
         \A i \in 1..n : s[i].size = t[i].size
  PROVE  /\ R!Bytes(s) \in Nat /\ R!Bytes(t) \in Nat
         /\ m = n => R!Bytes(t) = R!Bytes(s)
         /\ m = n + 1 => R!Bytes(t) = R!Bytes(s) + t[m].size
<1>1. PICK a \in [0..n -> Nat] : /\ a[0] = 0 /\ R!Bytes(s) = a[n]
                                 /\ \A k \in 1..n : a[k] = a[k - 1] + s[k].size
  BY BytesFold
<1>2. PICK b \in [0..m -> Nat] : /\ b[0] = 0 /\ R!Bytes(t) = b[m]
                                 /\ \A k \in 1..m : b[k] = b[k - 1] + t[k].size
  BY BytesFold
<1> DEFINE P == {k \in 0..n : a[k] = b[k]}
<1>3. 0 \in P BY <1>1, <1>2
<1>4. ASSUME NEW k \in 0..n, k < n, k \in P PROVE k + 1 \in P
  <2>1. k + 1 \in 1..n /\ k + 1 \in 1..m /\ (k + 1) - 1 = k BY <1>4
  <2>2. a[k + 1] = a[k] + s[k + 1].size BY <1>1, <2>1
  <2>3. b[k + 1] = b[k] + t[k + 1].size BY <1>2, <2>1
  <2>4. QED BY <1>4, <2>1, <2>2, <2>3
<1>5. a[n] = b[n]
  <2> HIDE DEF P
  <2>1. 0..n \subseteq P BY <1>3, <1>4, IntervalInduction
  <2>2. QED BY <2>1 DEF P
<1>6. m = n + 1 => b[m] = b[n] + t[m].size
  <2>1. SUFFICES ASSUME m = n + 1 PROVE b[m] = b[n] + t[m].size OBVIOUS
  <2>2. m \in 1..m /\ m - 1 = n BY <2>1
  <2>3. QED BY <1>2, <2>2
<1>7. a[n] \in Nat /\ b[m] \in Nat OBVIOUS
<1>8. QED BY <1>1, <1>2, <1>5, <1>6, <1>7

(***************************************************************************)
(* Sequences of frames, of any frames, and their ends.                       *)
(***************************************************************************)
Sequence(s) == \E S : s \in Seq(S)
SizesKnown(s) == Sequence(s) /\ \A i \in 1..Len(s) : s[i].size \in Nat

LEMMA SequenceIs == ASSUME NEW s, Sequence(s) PROVE Len(s) \in Nat /\ DOMAIN s = 1..Len(s)
<1>1. PICK S : s \in Seq(S) BY DEF Sequence
<1>2. QED BY <1>1

LEMMA OneMore ==
  ASSUME NEW s, Sequence(s), NEW e
  PROVE  /\ Sequence(Append(s, e)) /\ Len(Append(s, e)) = Len(s) + 1
         /\ Append(s, e)[Len(s) + 1] = e /\ \A i \in 1..Len(s) : Append(s, e)[i] = s[i]
<1>1. PICK S : s \in Seq(S) BY DEF Sequence
<1>2. PICK T2 : T2 = S \cup {e} OBVIOUS
<1>3. s \in Seq(T2) /\ e \in T2 BY <1>1, <1>2
<1>4. /\ Append(s, e) \in Seq(T2) /\ Len(Append(s, e)) = Len(s) + 1
      /\ Append(s, e)[Len(s) + 1] = e /\ \A i \in 1..Len(s) : Append(s, e)[i] = s[i]
  BY <1>3, AppendProperties
<1>5. QED BY <1>4 DEF Sequence

LEMMA PartOf ==
  ASSUME NEW s, Sequence(s), NEW m \in 1..(Len(s) + 1), NEW n \in 0..Len(s), m <= n + 1
  PROVE  /\ Sequence(SubSeq(s, m, n)) /\ Len(SubSeq(s, m, n)) = n - m + 1
         /\ \A i \in 1..(n - m + 1) : SubSeq(s, m, n)[i] = s[m + i - 1]
<1>1. PICK S : s \in Seq(S) BY DEF Sequence
<1>2. Len(s) \in Nat /\ \A i \in 1..Len(s) : s[i] \in S BY <1>1
<1>3. \A i \in m..n : s[i] \in S BY <1>2
<1>4. /\ SubSeq(s, m, n) \in Seq(S) /\ Len(SubSeq(s, m, n)) = IF m <= n THEN n - m + 1 ELSE 0
      /\ \A i \in 1..(n - m + 1) : SubSeq(s, m, n)[i] = s[m + i - 1]
  BY <1>2, <1>3, SubSeqProperties
<1>5. m <= n \/ n - m + 1 = 0 BY <1>2
<1>6. QED BY <1>4, <1>5 DEF Sequence

LEMMA PartSized ==
  ASSUME NEW s, SizesKnown(s), NEW m \in 1..(Len(s) + 1), NEW n \in 0..Len(s), m <= n + 1
  PROVE  Sized(SubSeq(s, m, n), n - m + 1) /\ n - m + 1 \in Nat
<1>1. PICK part : part = SubSeq(s, m, n) OBVIOUS
<1>2. PICK l \in Nat : l = n - m + 1
  <2>1. Len(s) \in Nat BY SequenceIs DEF SizesKnown
  <2>2. n - m + 1 \in Nat BY <2>1
  <2>3. QED BY <2>2
<1>3. /\ Sequence(part) /\ Len(part) = l /\ \A i \in 1..l : part[i] = s[m + i - 1]
  BY <1>1, <1>2, PartOf DEF SizesKnown
<1>4. DOMAIN part = 1..l BY <1>3, SequenceIs
<1>5. \A i \in 1..l : part[i].size \in Nat
  <2>1. Len(s) \in Nat BY SequenceIs DEF SizesKnown
  <2>2. \A i \in 1..l : m + i - 1 \in 1..Len(s) BY <1>2, <2>1
  <2>3. QED BY <1>3, <2>2 DEF SizesKnown
<1>6. QED BY <1>1, <1>2, <1>4, <1>5 DEF Sized

BytesFrom(s, m) == R!Bytes(SubSeq(s, m, Len(s)))

LEMMA BytesFromNat == ASSUME NEW s, SizesKnown(s), NEW m \in 1..(Len(s) + 1) PROVE BytesFrom(s, m) \in Nat
<1>1. Len(s) \in Nat BY SequenceIs DEF SizesKnown
<1>2. Sized(SubSeq(s, m, Len(s)), Len(s) - m + 1) /\ Len(s) - m + 1 \in Nat BY <1>1, PartSized
<1>3. QED BY <1>2, BytesOfMore DEF BytesFrom

(* A frame more adds its bytes to every end.                                *)
LEMMA BytesFromAppend ==
  ASSUME NEW s, SizesKnown(s), NEW e, e.size \in Nat, NEW m \in 1..(Len(s) + 1)
  PROVE  SizesKnown(Append(s, e)) /\ BytesFrom(Append(s, e), m) = BytesFrom(s, m) + e.size
<1>1. PICK t : t = Append(s, e) OBVIOUS
<1>2. PICK l \in Nat : l = Len(s) BY SequenceIs DEF SizesKnown
<1>3. Sequence(s) /\ \A i \in 1..l : s[i].size \in Nat BY <1>2 DEF SizesKnown
<1>4. Sequence(t) /\ Len(t) = l + 1 /\ t[l + 1] = e /\ \A i \in 1..l : t[i] = s[i]
  BY <1>1, <1>2, <1>3, OneMore
<1>5. SizesKnown(t)
  <2>1. \A i \in 1..(l + 1) : i \in 1..l \/ i = l + 1 OBVIOUS
  <2>2. \A i \in 1..(l + 1) : t[i].size \in Nat BY <1>3, <1>4, <2>1
  <2>3. QED BY <1>4, <2>2 DEF SizesKnown
<1>6. PICK a, b : a = SubSeq(s, m, l) /\ b = SubSeq(t, m, l + 1) OBVIOUS
<1>7. m \in 1..(l + 1) /\ m \in 1..(l + 2) BY <1>2
<1>8. PICK n \in Nat : n = l - m + 1 BY <1>7
<1>9. Sized(a, n)
  <2>1. m \in 1..(Len(s) + 1) /\ l \in 0..Len(s) /\ m <= l + 1 BY <1>2, <1>7
  <2>2. Sized(a, l - m + 1) BY <1>6, <2>1, PartSized
  <2>3. QED BY <1>8, <2>2
<1>10. Sized(b, n + 1)
  <2>1. m \in 1..(Len(t) + 1) /\ l + 1 \in 0..Len(t) /\ m <= (l + 1) + 1 BY <1>4, <1>7
  <2>2. Sized(b, (l + 1) - m + 1) BY <1>5, <1>6, <2>1, PartSized
  <2>3. (l + 1) - m + 1 = n + 1 BY <1>7, <1>8
  <2>4. QED BY <2>2, <2>3
<1>11. \A i \in 1..n : a[i] = s[m + i - 1] BY <1>2, <1>3, <1>6, <1>7, <1>8, PartOf
<1>12. \A i \in 1..(n + 1) : b[i] = t[m + i - 1]
  <2>1. m \in 1..(Len(t) + 1) /\ l + 1 \in 0..Len(t) /\ m <= (l + 1) + 1 BY <1>4, <1>7
  <2>2. \A i \in 1..((l + 1) - m + 1) : b[i] = t[m + i - 1] BY <1>4, <1>6, <2>1, PartOf
  <2>3. (l + 1) - m + 1 = n + 1 BY <1>7, <1>8
  <2>4. QED BY <2>2, <2>3
<1>13. \A i \in 1..n : a[i].size = b[i].size
  <2>1. \A i \in 1..n : m + i - 1 \in 1..l /\ i \in 1..(n + 1) BY <1>7, <1>8
  <2>2. QED BY <1>4, <1>11, <1>12, <2>1
<1>14. b[n + 1] = e
  <2>1. n + 1 \in 1..(n + 1) /\ m + (n + 1) - 1 = l + 1 BY <1>7, <1>8
  <2>2. b[n + 1] = t[m + (n + 1) - 1] BY <1>12, <2>1
  <2>3. QED BY <1>4, <2>1, <2>2
<1>15. R!Bytes(b) = R!Bytes(a) + b[n + 1].size
  <2>1. n + 1 \in Nat /\ n <= n + 1 OBVIOUS
  <2>2. QED BY <1>9, <1>10, <1>13, <2>1, BytesOfMore
<1>16. QED BY <1>1, <1>2, <1>4, <1>5, <1>6, <1>14, <1>15 DEF BytesFrom

(* What is left of a sequence has the ends that it had.                      *)
LEMMA BytesFromPart ==
  ASSUME NEW s, SizesKnown(s), NEW k \in 1..(Len(s) + 1), NEW i \in 1..(Len(s) - k + 1)
  PROVE  BytesFrom(SubSeq(s, k, Len(s)), i) = BytesFrom(s, i + k - 1)
<1>1. PICK l \in Nat : l = Len(s) BY SequenceIs DEF SizesKnown
<1>2. PICK t : t = SubSeq(s, k, l) OBVIOUS
<1>3. PICK n \in Nat : n = l - k + 1 BY <1>1
<1>4. Sequence(t) /\ Len(t) = n /\ \A j \in 1..n : t[j] = s[k + j - 1]
  BY <1>1, <1>2, <1>3, PartOf DEF SizesKnown
<1>5. SizesKnown(t)
  <2>1. \A j \in 1..n : k + j - 1 \in 1..l BY <1>1, <1>3
  <2>2. \A j \in 1..n : t[j].size \in Nat BY <1>1, <1>4, <2>1 DEF SizesKnown
  <2>3. QED BY <1>4, <2>2 DEF SizesKnown
<1>6. PICK m \in Nat : m = n - i + 1
  <2>1. i \in 1..n BY <1>1, <1>3
  <2>2. n - i + 1 \in Nat BY <2>1
  <2>3. QED BY <2>2
<1>7. PICK a, b : a = SubSeq(t, i, n) /\ b = SubSeq(s, i + k - 1, l) OBVIOUS
<1>8. i \in 1..n /\ i + k - 1 \in 1..l /\ l - (i + k - 1) + 1 = m BY <1>1, <1>3, <1>6
<1>9. Sized(a, m) /\ \A j \in 1..m : a[j] = t[i + j - 1]
  <2>1. i \in 1..(Len(t) + 1) /\ n \in 0..Len(t) /\ i <= n + 1 BY <1>4, <1>8
  <2>2. Sized(a, n - i + 1) BY <1>5, <1>7, <2>1, PartSized
  <2>3. \A j \in 1..(n - i + 1) : a[j] = t[i + j - 1] BY <1>4, <1>7, <2>1, PartOf
  <2>4. QED BY <1>6, <2>2, <2>3
<1>10. Sized(b, m) /\ \A j \in 1..m : b[j] = s[(i + k - 1) + j - 1]
  <2>1. i + k - 1 \in 1..(l + 1) /\ l \in 0..l /\ i + k - 1 <= l + 1 BY <1>8
  <2>2. Sized(b, l - (i + k - 1) + 1) BY <1>1, <1>7, <2>1, PartSized
  <2>3. \A j \in 1..(l - (i + k - 1) + 1) : b[j] = s[(i + k - 1) + j - 1] BY <1>1, <1>7, <2>1, PartOf DEF SizesKnown
  <2>4. QED BY <1>8, <2>2, <2>3
<1>11. \A j \in 1..m : a[j] = b[j]
  <2>1. \A j \in 1..m : i + j - 1 \in 1..n /\ k + (i + j - 1) - 1 = (i + k - 1) + j - 1 BY <1>1, <1>6, <1>8
  <2>2. QED BY <1>4, <1>9, <1>10, <2>1
<1>12. R!Bytes(a) = R!Bytes(b)
  <2>1. \A j \in 1..m : a[j].size = b[j].size BY <1>11
  <2>2. m <= m OBVIOUS
  <2>3. Sized(a, m) /\ Sized(b, m) BY <1>9, <1>10
  <2>4. QED BY <2>1, <2>2, <2>3, BytesOfMore
<1>13. QED BY <1>1, <1>2, <1>4, <1>7, <1>12 DEF BytesFrom

(***************************************************************************)
(* A session writes frames in their order: what it takes is in its file or    *)
(* comes after all of it, the recording being over.                          *)
(***************************************************************************)
Sessions(s) ==
  [on : BOOLEAN, flow : {s.flow}, pid : {s.pid}, until : {s.until}, bytes : Nat, file : Seq(Nat),
   began : {s.began}, after : {s.after}, knew : {s.knew}]
Written(s) == {s.file[i] : i \in 1..Len(s.file)}
Ordered(s) == \A i, j \in 1..Len(s.file) : i < j => s.file[i] < s.file[j]
Over(s, n) == ~s.on /\ \A m \in Written(s) : m < n
Holds(s, W) == \A n \in W : n \in Written(s) \/ Over(s, n)
Takes(s, frame, processes) == IF R!takes(s, frame.flow, processes) THEN {frame.n} ELSE {}

LEMMA WriteOne ==
  ASSUME NEW s, s \in Sessions(s), Ordered(s), NEW frame, frame.n \in Nat, frame.size \in Nat,
         \A m \in Written(s) : m < frame.n, NEW W, Holds(s, W), NEW processes, FileLimit \in Nat
  PROVE  LET r == R!Write(s, frame, processes) IN
         /\ r \in Sessions(s) /\ r \in Sessions(r) /\ Ordered(r)
         /\ Written(r) \subseteq Written(s) \cup Takes(s, frame, processes)
         /\ Holds(r, W \cup Takes(s, frame, processes))
<1>1. PICK r : r = R!Write(s, frame, processes) OBVIOUS
<1>2. s.on \in BOOLEAN /\ s.bytes \in Nat /\ s.file \in Seq(Nat) BY DEF Sessions
<1>3. PICK n \in Nat : n = frame.n OBVIOUS
<1>4. CASE ~s.on
  <2>1. r = s BY <1>1, <1>4 DEF R!Write
  <2>2. Holds(s, W \cup Takes(s, frame, processes)) BY <1>4 DEF Holds, Over, Takes
  <2>3. QED BY <1>1, <2>1, <2>2
<1>5. CASE s.on /\ ~R!takes(s, frame.flow, processes)
  <2>1. r = s BY <1>1, <1>5 DEF R!Write
  <2>2. Takes(s, frame, processes) = {} BY <1>5 DEF Takes
  <2>3. QED BY <1>1, <2>1, <2>2
<1>6. CASE s.on /\ R!takes(s, frame.flow, processes) /\ s.bytes + frame.size > FileLimit
  <2>1. r = [s EXCEPT !.on = FALSE] BY <1>1, <1>6 DEF R!Write
  <2>2. r \in Sessions(s) /\ r \in Sessions(r) /\ r.file = s.file /\ ~r.on BY <2>1 DEF Sessions
  <2>3. Ordered(r) /\ Written(r) = Written(s) BY <2>2 DEF Ordered, Written
  <2>4. Holds(r, W \cup Takes(s, frame, processes))
    <3>1. \A m \in W : m \in Written(r) BY <1>6, <2>3 DEF Holds, Over
    <3>2. Over(r, frame.n) BY <2>2, <2>3 DEF Over
    <3>3. QED BY <3>1, <3>2 DEF Holds, Takes
  <2>5. QED BY <1>1, <2>2, <2>3, <2>4
<1>7. CASE s.on /\ R!takes(s, frame.flow, processes) /\ ~(s.bytes + frame.size > FileLimit)
  <2>1. r = [s EXCEPT !.bytes = s.bytes + frame.size, !.file = Append(s.file, n)]
    BY <1>1, <1>3, <1>7 DEF R!Write
  <2>2. PICK file : file = Append(s.file, n) OBVIOUS
  <2>3. PICK l \in Nat : l = Len(s.file) BY <1>2
  <2>4. /\ file \in Seq(Nat) /\ Len(file) = l + 1 /\ file[l + 1] = n /\ \A i \in 1..l : file[i] = s.file[i]
    BY <1>2, <2>2, <2>3, AppendProperties
  <2>5. r \in Sessions(s) /\ r \in Sessions(r) /\ r.file = file
    <3>1. s.bytes + frame.size \in Nat BY <1>2
    <3>2. QED BY <2>1, <2>2, <2>4, <3>1 DEF Sessions
  <2>6. \A i \in 1..l : s.file[i] < n BY <1>3, <2>3 DEF Written
  <2>7. Ordered(r)
    <3> SUFFICES ASSUME NEW i \in 1..(l + 1), NEW j \in 1..(l + 1), i < j PROVE file[i] < file[j]
      BY <2>4, <2>5 DEF Ordered
    <3>1. i \in 1..l /\ (j \in 1..l \/ j = l + 1) OBVIOUS
    <3>2. CASE j \in 1..l BY <2>3, <2>4, <3>1, <3>2 DEF Ordered
    <3>3. CASE j = l + 1 BY <2>4, <2>6, <3>1, <3>3
    <3>4. QED BY <3>1, <3>2, <3>3
  <2>8. Written(r) = Written(s) \cup {n}
    <3>1. \A i \in 1..(l + 1) : i \in 1..l \/ i = l + 1 OBVIOUS
    <3>2. l + 1 \in 1..(l + 1) /\ \A i \in 1..l : i \in 1..(l + 1) OBVIOUS
    <3>3. QED BY <2>3, <2>4, <2>5, <3>1, <3>2 DEF Written
  <2>9. Takes(s, frame, processes) = {n} BY <1>3, <1>7 DEF Takes
  <2>10. \A m \in W : m \in Written(s) BY <1>7 DEF Holds, Over
  <2>11. Holds(r, W \cup {n}) BY <2>8, <2>10 DEF Holds
  <2>12. QED BY <1>1, <2>5, <2>7, <2>8, <2>9, <2>11
<1>8. QED BY <1>4, <1>5, <1>6, <1>7

(* The start of a session with the frames kept: one Write after the other.   *)
Given(s, h, processes) == R!FoldLeft(LAMBDA r, frame : R!Write(r, frame, processes), s, h)

Numbered(h, n) == DOMAIN h = 1..n /\ \A i \in 1..n : h[i].n \in Nat /\ h[i].size \in Nat
Writes(at, n, s, h, processes) ==
  /\ at[0] = s /\ Given(s, h, processes) = at[n]
  /\ \A k \in 1..n : at[k] = R!Write(at[k - 1], h[k], processes)

LEMMA WriteFold ==
  ASSUME NEW n \in Nat, NEW h, Numbered(h, n),
         NEW s, s \in Sessions(s), NEW processes, FileLimit \in Nat
  PROVE  \E at \in [0..n -> Sessions(s)] : Writes(at, n, s, h, processes)
<1>2. DOMAIN h = 1..n /\ \A i \in 1..n : h[i].n \in Nat /\ h[i].size \in Nat BY DEF Numbered
<1> DEFINE Defines(g) ==
      g = [z \in SUBSET (DOMAIN h) |->
             IF z = {} THEN s ELSE R!Write(g[z \ {R!Max(z)}], h[R!Max(z)], processes)]
<1>1. Given(s, h, processes) = (CHOOSE g : Defines(g))[DOMAIN h]
  BY <1>2 DEF Given, R!FoldLeft, R!MapThenFoldSet
<1> DEFINE step == [x \in Sessions(s) \X (1..n) |-> R!Write(x[1], h[x[2]], processes)]
<1>3. PICK up : up = step OBVIOUS
<1>4. \A a \in Sessions(s), i \in 1..n : up[<<a, i>>] = R!Write(a, h[i], processes) BY <1>3
<1>5. up \in [Sessions(s) \X (1..n) -> Sessions(s)]
  <2>1. ASSUME NEW a \in Sessions(s), NEW i \in 1..n PROVE R!Write(a, h[i], processes) \in Sessions(s)
    <3>1. PICK size \in Nat, number \in Nat : size = h[i].size /\ number = h[i].n BY <1>2
    <3>2. a.file \in Seq(Nat) /\ a.bytes \in Nat BY DEF Sessions
    <3>3. Append(a.file, number) \in Seq(Nat) /\ a.bytes + size \in Nat BY <3>2
    <3>4. [a EXCEPT !.on = FALSE] \in Sessions(s) BY DEF Sessions
    <3>5. [a EXCEPT !.bytes = a.bytes + size, !.file = Append(a.file, number)] \in Sessions(s)
      BY <3>3 DEF Sessions
    <3>6. QED BY <3>1, <3>4, <3>5 DEF R!Write
  <2>2. QED BY <1>3, <2>1
<1> HIDE DEF step
<1>6. PICK f \in [SUBSET (1..n) -> Sessions(s)] : FoldsTo(f, n, s, up) BY <1>5, FoldExists
<1>7. \A z : R!Max(z) = Topmost(z) BY DEF R!Max, Topmost
<1>8. ASSUME NEW z \in SUBSET (1..n), z # {} PROVE Topmost(z) \in z
  <2>1. z \in SUBSET Int /\ IsFiniteSet(z)
    <3>1. IsFiniteSet(1..n) BY FS_Interval
    <3>2. IsFiniteSet(z) BY <3>1, FS_Subset
    <3>3. QED BY <3>2
  <2>2. \E m \in z : \A x \in z : x <= m BY <1>8, <2>1, Greatest
  <2>3. \E m \in z : \A x \in z : m >= x BY <2>1, <2>2
  <2>4. QED BY <2>3 DEF Topmost
<1>9. ASSUME NEW z \in SUBSET (1..n)
      PROVE  f[z] = IF z = {} THEN s ELSE R!Write(f[z \ {R!Max(z)}], h[R!Max(z)], processes)
  <2>1. CASE z = {} BY <1>6, <2>1 DEF FoldsTo
  <2>2. CASE z # {}
    <3>1. PICK m \in 1..n : m = Topmost(z) BY <1>8, <2>2
    <3>2. z \ {m} \in SUBSET (1..n) BY <3>1
    <3>3. f[z \ {m}] \in Sessions(s) BY <3>2
    <3>4. f[z] = up[<<f[z \ {m}], m>>] BY <1>6, <2>2, <3>1 DEF FoldsTo
    <3>5. f[z] = R!Write(f[z \ {m}], h[m], processes) BY <1>4, <3>3, <3>4
    <3>6. QED BY <1>7, <2>2, <3>1, <3>5
  <2>3. QED BY <2>1, <2>2
<1>10. Defines(f)
  <2>1. DOMAIN f = SUBSET (1..n) OBVIOUS
  <2>2. QED BY <1>2, <1>9, <2>1
<1>11. PICK g : g = CHOOSE i : Defines(i) OBVIOUS
<1>12. Defines(g) BY <1>10, <1>11
<1>13. ASSUME NEW z \in SUBSET (1..n)
       PROVE  g[z] = IF z = {} THEN s ELSE R!Write(g[z \ {Topmost(z)}], h[Topmost(z)], processes)
  BY <1>2, <1>7, <1>12
<1>14. Given(s, h, processes) = g[1..n] BY <1>1, <1>2, <1>11
<1> HIDE DEF Defines
<1>15. PICK at : at = [k \in 0..n |-> g[1..k]] OBVIOUS
<1>16. at[0] = s
  <2>1. 1..0 = {} /\ {} \in SUBSET (1..n) OBVIOUS
  <2>2. g[{}] = s BY <1>13, <2>1
  <2>3. QED BY <1>15, <2>1, <2>2
<1>17. ASSUME NEW k \in 1..n PROVE at[k] = R!Write(at[k - 1], h[k], processes)
  <2>1. PICK z \in SUBSET (1..n) : z = 1..k OBVIOUS
  <2>2. z # {} /\ Topmost(z) = k
    <3>1. k \in Int /\ z \in SUBSET Int /\ k \in z /\ \A y \in z : k >= y BY <2>1
    <3>2. Topmost(z) = k BY <3>1, TopmostIs
    <3>3. QED BY <3>1, <3>2
  <2>3. z \ {k} = 1..(k - 1) BY <2>1
  <2>4. g[z] = R!Write(g[z \ {k}], h[k], processes) BY <1>13, <2>2
  <2>5. at[k] = g[z] /\ at[k - 1] = g[z \ {k}]
    <3>1. PICK j \in 0..n : j = k - 1 OBVIOUS
    <3>2. at[j] = g[1..j] /\ at[k] = g[1..k] BY <1>15
    <3>3. QED BY <2>1, <2>3, <3>1, <3>2
  <2>6. QED BY <2>4, <2>5
<1>18. \A k \in 0..n : at[k] \in Sessions(s)
  <2> DEFINE P == {k \in 0..n : at[k] \in Sessions(s)}
  <2>1. 0 \in P BY <1>16
  <2>2. ASSUME NEW k \in 0..n, k < n, k \in P PROVE k + 1 \in P
    <3>1. k + 1 \in 1..n /\ (k + 1) - 1 = k BY <2>2
    <3>2. at[k + 1] = R!Write(at[k], h[k + 1], processes) BY <1>17, <3>1
    <3>3. <<at[k], k + 1>> \in Sessions(s) \X (1..n) BY <2>2, <3>1
    <3>4. up[<<at[k], k + 1>>] \in Sessions(s) BY <1>5, <3>3
    <3>5. up[<<at[k], k + 1>>] = at[k + 1] BY <1>4, <2>2, <3>1, <3>2
    <3>6. QED BY <3>1, <3>4, <3>5
  <2> HIDE DEF P
  <2>3. 0..n \subseteq P BY <2>1, <2>2, IntervalInduction
  <2>4. QED BY <2>3 DEF P
<1>19. at \in [0..n -> Sessions(s)] BY <1>15, <1>18
<1>20. Given(s, h, processes) = at[n]
  <2>1. at[n] = g[1..n] BY <1>15
  <2>2. QED BY <1>14, <2>1
<1>21. QED BY <1>16, <1>17, <1>19, <1>20 DEF Writes

(* What a session holds after the frames kept.                               *)
LEMMA SessionStarts ==
  ASSUME NEW n \in Nat, NEW h, DOMAIN h = 1..n, \A i \in 1..n : h[i].n \in Nat /\ h[i].size \in Nat,
         \A i, j \in 1..n : i < j => h[i].n < h[j].n,
         NEW s, s \in Sessions(s), s.file = <<>>, NEW processes, FileLimit \in Nat
  PROVE  LET r == Given(s, h, processes) IN
         /\ r \in Sessions(s) /\ r \in Sessions(r) /\ Ordered(r)
         /\ \A m \in Written(r) : \E i \in 1..n : h[i].n = m /\ R!takes(s, h[i].flow, processes)
         /\ \A i \in 1..n : R!takes(s, h[i].flow, processes) => h[i].n \in Written(r) \/ Over(r, h[i].n)
<1>0. PICK at \in [0..n -> Sessions(s)] : Writes(at, n, s, h, processes)
  <2>1. Numbered(h, n) BY DEF Numbered
  <2>2. QED BY <2>1, WriteFold
<1>1. /\ at[0] = s /\ Given(s, h, processes) = at[n]
      /\ \A k \in 1..n : at[k] = R!Write(at[k - 1], h[k], processes)
  BY <1>0 DEF Writes
<1> DEFINE W(k) == {m \in Nat : \E i \in 1..k : h[i].n = m /\ R!takes(s, h[i].flow, processes)}
           Good(k) == /\ at[k] \in Sessions(at[k]) /\ Ordered(at[k])
                      /\ Written(at[k]) \subseteq W(k) /\ Holds(at[k], W(k))
           P == {k \in 0..n : Good(k)}
<1>2. 0 \in P
  <2>1. W(0) = {} OBVIOUS
  <2>2. Written(s) = {} /\ Ordered(s) /\ Holds(s, {}) BY DEF Written, Ordered, Holds
  <2>3. Good(0) BY <1>1, <2>1, <2>2
  <2>4. QED BY <2>3
<1>3. ASSUME NEW k \in 0..n, k < n, k \in P PROVE k + 1 \in P
  <2>1. PICK j \in 1..n : j = k + 1 BY <1>3
  <2>2. j - 1 = k BY <2>1
  <2>3. at[j] = R!Write(at[k], h[j], processes) BY <1>1, <2>2
  <2>4. PICK q, r : q = at[k] /\ r = at[j] OBVIOUS
  <2>5. q \in Sessions(q) /\ q \in Sessions(s) /\ Ordered(q) /\ Written(q) \subseteq W(k) /\ Holds(q, W(k))
    BY <1>3, <2>4
  <2>6. \A m \in W(k) : m < h[j].n
    <3>1. \A i \in 1..k : i \in 1..n /\ i < j BY <2>1
    <3>2. QED BY <3>1
  <2>7. Takes(q, h[j], processes) = Takes(s, h[j], processes)
    <3>1. q.flow = s.flow /\ q.pid = s.pid BY <2>5 DEF Sessions
    <3>2. QED BY <3>1 DEF Takes, R!takes
  <2>8. W(j) = W(k) \cup Takes(s, h[j], processes)
    <3>1. \A i \in 1..j : i \in 1..k \/ i = j BY <2>1
    <3>2. j \in 1..j /\ \A i \in 1..k : i \in 1..j BY <2>1
    <3>3. h[j].n \in Nat OBVIOUS
    <3>4. QED BY <3>1, <3>2, <3>3 DEF Takes
  <2> HIDE DEF W
  <2>9. PICK V1 : V1 = W(k) OBVIOUS
  <2>10. /\ r \in Sessions(r) /\ Ordered(r)
         /\ Written(r) \subseteq Written(q) \cup Takes(q, h[j], processes)
         /\ Holds(r, V1 \cup Takes(q, h[j], processes))
    <3>1. \A m \in Written(q) : m < h[j].n BY <2>5, <2>6
    <3>2. Holds(q, V1) BY <2>5, <2>9
    <3>3. r = R!Write(q, h[j], processes) BY <2>3, <2>4
    <3>4. QED BY <2>5, <3>1, <3>2, <3>3, WriteOne
  <2>11. Written(r) \subseteq W(j) /\ Holds(r, W(j)) BY <2>5, <2>7, <2>8, <2>9, <2>10
  <2>12. Good(j) BY <2>4, <2>10, <2>11
  <2>13. QED BY <2>1, <2>12
<1>4. Good(n)
  <2> HIDE DEF P
  <2>1. 0..n \subseteq P BY <1>2, <1>3, IntervalInduction
  <2>2. n \in P BY <2>1
  <2>3. QED BY <2>2 DEF P
<1>5. PICK r : r = at[n] OBVIOUS
<1>6. r \in Sessions(s) BY <1>5
<1>7. r \in Sessions(r) /\ Ordered(r) BY <1>4, <1>5
<1>8. \A m \in Written(r) : \E i \in 1..n : h[i].n = m /\ R!takes(s, h[i].flow, processes) BY <1>4, <1>5
<1>9. ASSUME NEW i \in 1..n, R!takes(s, h[i].flow, processes) PROVE h[i].n \in Written(r) \/ Over(r, h[i].n)
  <2>1. h[i].n \in W(n) BY <1>9
  <2>2. QED BY <1>4, <1>5, <2>1 DEF Holds
<1>10. QED BY <1>1, <1>5, <1>6, <1>7, <1>8, <1>9

(***************************************************************************)
(* The history: it has every frame of a flow that is recent enough and that,  *)
(* with what was captured since, is within the limit.                        *)
(***************************************************************************)
Whole(f) == f.kind # "later"
Linked(h, c) ==
  /\ SizesKnown(h) /\ SizesKnown(c)
  /\ \A i \in 1..Len(h) :
       /\ h[i].n \in 1..Len(c) /\ h[i].size = c[h[i].n].size /\ h[i].at = c[h[i].n].at
       /\ Whole(c[h[i].n]) => h[i].flow = c[h[i].n].flow
       /\ BytesFrom(h, i) <= BytesFrom(c, h[i].n)
  /\ \A i, j \in 1..Len(h) : i < j => h[i].n < h[j].n
Recent(c, n, t) == t - c[n].at <= MaxAge /\ BytesFrom(c, n) <= HistoryLimit
HasRecent(h, c, t) ==
  \A n \in 1..Len(c) : Whole(c[n]) /\ c[n].flow # <<>> /\ Recent(c, n, t) => \E i \in 1..Len(h) : h[i].n = n

LEMMA TrimIs ==
  ASSUME NEW h, SizesKnown(h), NEW t
  PROVE  \E k \in 1..(Len(h) + 1) :
           /\ R!trim(h, t) = SubSeq(h, k, Len(h))
           /\ \A i \in 1..Len(h) : BytesFrom(h, i) <= HistoryLimit /\ t - h[i].at <= MaxAge => k <= i
<1>1. PICK l \in Nat : l = Len(h) BY SequenceIs DEF SizesKnown
<1> DEFINE keeps(k) == SubSeq(h, k, l) = <<>> \/ (R!Bytes(SubSeq(h, k, l)) <= HistoryLimit
                                                  /\ t - SubSeq(h, k, l)[1].at <= MaxAge)
           S == {k \in 1..(l + 1) : keeps(k)}
<1>2. R!trim(h, t) = SubSeq(h, R!Min(S), l) BY <1>1 DEF R!trim
<1>3. S # {}
  <2>1. SubSeq(h, l + 1, l) = <<>> BY SubSeqEmpty
  <2>2. l + 1 \in 1..(l + 1) OBVIOUS
  <2>3. l + 1 \in S BY <2>1, <2>2
  <2>4. QED BY <2>3
<1>4. PICK k : k = R!Min(S) OBVIOUS
<1>5. k \in S /\ \A x \in S : k <= x
  <2>1. S \in SUBSET Nat OBVIOUS
  <2>2. PICK Z : Z = S OBVIOUS
  <2>3. \E m \in Z : \A x \in Z : m <= x BY <1>3, <2>1, <2>2, Least
  <2>4. R!Min(Z) \in Z /\ \A x \in Z : R!Min(Z) <= x BY <2>3 DEF R!Min
  <2>5. QED BY <1>4, <2>2, <2>4
<1>6. ASSUME NEW i \in 1..l, BytesFrom(h, i) <= HistoryLimit, t - h[i].at <= MaxAge PROVE k <= i
  <2>1. SubSeq(h, i, l)[1] = h[i]
    <3>1. i \in 1..(Len(h) + 1) /\ l \in 0..Len(h) /\ i <= l + 1 /\ 1 \in 1..(l - i + 1) /\ i + 1 - 1 = i BY <1>1
    <3>2. Sequence(h) BY DEF SizesKnown
    <3>3. SubSeq(h, i, l)[1] = h[i + 1 - 1] BY <3>1, <3>2, PartOf
    <3>4. QED BY <3>1, <3>3
  <2>2. i \in S BY <1>1, <1>6, <2>1 DEF BytesFrom
  <2>3. QED BY <1>5, <2>2
<1>7. k \in 1..(l + 1) BY <1>5
<1>8. QED BY <1>1, <1>2, <1>4, <1>6, <1>7

LEMMA TrimKeeps ==
  ASSUME NEW h, NEW c, Linked(h, c), NEW t \in Nat, HasRecent(h, c, t), Recordable,
         \A n \in 1..Len(c) : c[n].at \in Nat
  PROVE  Linked(R!trim(h, t), c) /\ HasRecent(R!trim(h, t), c, t)
<1>1. PICK l \in Nat : l = Len(h) BY SequenceIs DEF Linked, SizesKnown
<1>2. PICK k \in 1..(l + 1) :
        /\ R!trim(h, t) = SubSeq(h, k, l)
        /\ \A i \in 1..l : BytesFrom(h, i) <= HistoryLimit /\ t - h[i].at <= MaxAge => k <= i
  BY <1>1, TrimIs DEF Linked
<1>3. PICK r : r = SubSeq(h, k, l) OBVIOUS
<1>4. PICK n \in Nat : n = l - k + 1 OBVIOUS
<1>5. Sequence(r) /\ Len(r) = n /\ \A i \in 1..n : r[i] = h[i + k - 1]
  <2>1. k \in 1..(Len(h) + 1) /\ l \in 0..Len(h) /\ k <= l + 1 BY <1>1
  <2>2. Sequence(h) BY DEF Linked, SizesKnown
  <2>3. Sequence(r) /\ Len(r) = n /\ \A i \in 1..n : r[i] = h[k + i - 1] BY <1>3, <1>4, <2>1, <2>2, PartOf
  <2>4. \A i \in 1..n : k + i - 1 = i + k - 1 OBVIOUS
  <2>5. QED BY <2>3, <2>4
<1>6. \A i \in 1..n : i + k - 1 \in 1..l BY <1>4
<1>7. Linked(r, c)
  <2>1. SizesKnown(c) BY DEF Linked
  <2>2. SizesKnown(r) BY <1>1, <1>5, <1>6 DEF Linked, SizesKnown
  <2>3. ASSUME NEW i \in 1..n
        PROVE  /\ r[i].n \in 1..Len(c) /\ r[i].size = c[r[i].n].size /\ r[i].at = c[r[i].n].at
               /\ Whole(c[r[i].n]) => r[i].flow = c[r[i].n].flow
               /\ BytesFrom(r, i) <= BytesFrom(c, r[i].n)
    <3>1. PICK j \in 1..l : j = i + k - 1 BY <1>6
    <3>2. r[i] = h[j] BY <1>5, <3>1
    <3>3. BytesFrom(r, i) = BytesFrom(h, j)
      <4>1. i \in 1..(Len(h) - k + 1) /\ k \in 1..(Len(h) + 1) BY <1>1, <1>4
      <4>2. QED BY <1>1, <1>3, <3>1, <4>1, BytesFromPart DEF Linked
    <3>4. QED BY <1>1, <3>2, <3>3 DEF Linked
  <2>4. ASSUME NEW i \in 1..n, NEW j \in 1..n, i < j PROVE r[i].n < r[j].n
    <3>1. PICK x \in 1..l, y \in 1..l : x = i + k - 1 /\ y = j + k - 1 BY <1>6
    <3>2. x < y BY <2>4, <3>1
    <3>3. r[i] = h[x] /\ r[j] = h[y] BY <1>5, <3>1
    <3>4. QED BY <1>1, <3>2, <3>3 DEF Linked
  <2>5. QED BY <1>5, <2>1, <2>2, <2>3, <2>4 DEF Linked
<1>8. HasRecent(r, c, t)
  <2> SUFFICES ASSUME NEW m \in 1..Len(c), Whole(c[m]), c[m].flow # <<>>, Recent(c, m, t)
               PROVE  \E i \in 1..n : r[i].n = m
    BY <1>5 DEF HasRecent
  <2>1. PICK i \in 1..l : h[i].n = m BY <1>1 DEF HasRecent
  <2>2. BytesFrom(h, i) <= BytesFrom(c, m) /\ h[i].at = c[m].at BY <1>1, <2>1 DEF Linked
  <2>3. BytesFrom(h, i) \in Nat /\ BytesFrom(c, m) \in Nat
    <3>1. Len(c) \in Nat BY SequenceIs DEF Linked, SizesKnown
    <3>2. i \in 1..(Len(h) + 1) /\ m \in 1..(Len(c) + 1) BY <1>1, <3>1
    <3>3. QED BY <3>2, BytesFromNat DEF Linked
  <2>4. k <= i BY <1>2, <2>2, <2>3 DEF Recent, Recordable
  <2>5. PICK j \in 1..n : j = i - k + 1
    <3>1. i - k + 1 \in 1..n BY <1>4, <2>4
    <3>2. QED BY <3>1
  <2>6. j + k - 1 = i BY <2>5
  <2>7. r[j] = h[i] BY <1>5, <2>6
  <2>8. QED BY <2>1, <2>7
<1>9. QED BY <1>2, <1>3, <1>7, <1>8

LEMMA EmptyEnds ==
  ASSUME NEW s, SizesKnown(s), NEW t, SizesKnown(t) PROVE BytesFrom(s, Len(s) + 1) = BytesFrom(t, Len(t) + 1)
<1>1. PICK a, b : a = SubSeq(s, Len(s) + 1, Len(s)) /\ b = SubSeq(t, Len(t) + 1, Len(t)) OBVIOUS
<1>2. Len(s) \in Nat /\ Len(t) \in Nat BY SequenceIs DEF SizesKnown
<1>3. Sized(a, 0)
  <2>1. Len(s) + 1 \in 1..(Len(s) + 1) /\ Len(s) \in 0..Len(s) /\ Len(s) - (Len(s) + 1) + 1 = 0 BY <1>2
  <2>2. QED BY <1>1, <2>1, PartSized
<1>4. Sized(b, 0)
  <2>1. Len(t) + 1 \in 1..(Len(t) + 1) /\ Len(t) \in 0..Len(t) /\ Len(t) - (Len(t) + 1) + 1 = 0 BY <1>2
  <2>2. QED BY <1>1, <2>1, PartSized
<1>5. R!Bytes(b) = R!Bytes(a)
  <2>1. 0 \in Nat /\ 0 <= 0 /\ \A i \in 1..0 : a[i].size = b[i].size OBVIOUS
  <2>2. QED BY <1>3, <1>4, <2>1, BytesOfMore
<1>6. QED BY <1>1, <1>5 DEF BytesFrom

LEMMA FrameLinked ==
  ASSUME NEW h, NEW c, Linked(h, c), NEW t \in Nat, HasRecent(h, c, t), Recordable,
         NEW e, e.size \in Nat, e.at = t, NEW frame,
         frame.n = Len(c) + 1, frame.size = e.size, frame.at = e.at, Whole(e) => frame.flow = e.flow
  PROVE  LET d == Append(c, e) IN
         /\ frame.flow = <<>> => Linked(h, d) /\ HasRecent(h, d, t)
         /\ Linked(Append(h, frame), d) /\ HasRecent(Append(h, frame), d, t)
<1>1. PICK d, g : d = Append(c, e) /\ g = Append(h, frame) OBVIOUS
<1>2. SizesKnown(h) /\ SizesKnown(c) /\ Sequence(h) /\ Sequence(c) BY DEF Linked, SizesKnown
<1>3. PICK l \in Nat, m \in Nat : l = Len(h) /\ m = Len(c) BY <1>2, SequenceIs
<1>4. Len(d) = m + 1 /\ d[m + 1] = e /\ (\A i \in 1..m : d[i] = c[i]) BY <1>1, <1>2, <1>3, OneMore
<1>5. Len(g) = l + 1 /\ g[l + 1] = frame /\ (\A i \in 1..l : g[i] = h[i]) BY <1>1, <1>2, <1>3, OneMore
<1>6. PICK size \in Nat : size = e.size OBVIOUS
<1>7. SizesKnown(d) /\ \A n \in 1..(m + 1) : BytesFrom(d, n) = BytesFrom(c, n) + size
  BY <1>1, <1>2, <1>3, <1>6, BytesFromAppend
<1>8. SizesKnown(g) /\ \A i \in 1..(l + 1) : BytesFrom(g, i) = BytesFrom(h, i) + size
  BY <1>1, <1>2, <1>3, <1>6, BytesFromAppend
<1>9. (\A n \in 1..(m + 1) : BytesFrom(c, n) \in Nat) /\ (\A i \in 1..(l + 1) : BytesFrom(h, i) \in Nat)
  BY <1>2, <1>3, BytesFromNat
<1>10. ASSUME NEW i \in 1..l
       PROVE  /\ h[i].n \in 1..m /\ d[h[i].n] = c[h[i].n]
              /\ h[i].size = d[h[i].n].size /\ h[i].at = d[h[i].n].at
              /\ Whole(d[h[i].n]) => h[i].flow = d[h[i].n].flow
              /\ BytesFrom(h, i) <= BytesFrom(c, h[i].n)
  <2>1. /\ h[i].n \in 1..m /\ h[i].size = c[h[i].n].size /\ h[i].at = c[h[i].n].at
        /\ Whole(c[h[i].n]) => h[i].flow = c[h[i].n].flow
        /\ BytesFrom(h, i) <= BytesFrom(c, h[i].n)
    BY <1>3 DEF Linked
  <2>2. d[h[i].n] = c[h[i].n] BY <1>4, <2>1
  <2>3. QED BY <2>1, <2>2
<1>11. \A i, j \in 1..l : i < j => h[i].n < h[j].n BY <1>3 DEF Linked
<1>12. ASSUME NEW n \in 1..m, Whole(d[n]), d[n].flow # <<>>, Recent(d, n, t) PROVE \E i \in 1..l : h[i].n = n
  <2>1. d[n] = c[n] BY <1>4
  <2>2. BytesFrom(c, n) <= BytesFrom(d, n) /\ BytesFrom(d, n) \in Int
    <3>1. n \in 1..(m + 1) OBVIOUS
    <3>2. BytesFrom(d, n) = BytesFrom(c, n) + size /\ BytesFrom(c, n) \in Nat BY <1>7, <1>9, <3>1
    <3>3. QED BY <3>2
  <2>3. BytesFrom(c, n) <= HistoryLimit
    <3>1. n \in 1..(m + 1) OBVIOUS
    <3>2. BytesFrom(c, n) \in Nat BY <1>9, <3>1
    <3>3. BytesFrom(d, n) <= HistoryLimit /\ HistoryLimit \in Nat BY <1>12 DEF Recent, Recordable
    <3>4. QED BY <2>2, <3>2, <3>3
  <2>4. Recent(c, n, t) BY <1>12, <2>1, <2>3 DEF Recent
  <2>5. Whole(c[n]) /\ c[n].flow # <<>> BY <1>12, <2>1
  <2>6. QED BY <1>3, <2>4, <2>5 DEF HasRecent
<1>13. \A i \in 1..l : BytesFrom(h, i) \in Nat /\ BytesFrom(c, h[i].n) \in Nat
  <2>1. \A i \in 1..l : i \in 1..(l + 1) /\ h[i].n \in 1..(m + 1) BY <1>10
  <2>2. QED BY <1>9, <2>1
<1>14. \A i \in 1..l : BytesFrom(d, h[i].n) = BytesFrom(c, h[i].n) + size
  <2>1. \A i \in 1..l : h[i].n \in 1..(m + 1) BY <1>10
  <2>2. QED BY <1>7, <2>1
<1>15. Linked(h, d)
  <2>1. \A i \in 1..l : h[i].n \in 1..(m + 1) BY <1>10
  <2>2. ASSUME NEW i \in 1..l PROVE BytesFrom(h, i) <= BytesFrom(d, h[i].n)
    <3>1. BytesFrom(h, i) <= BytesFrom(c, h[i].n) BY <1>10
    <3>2. BytesFrom(d, h[i].n) = BytesFrom(c, h[i].n) + size BY <1>14
    <3>3. QED BY <1>13, <3>1, <3>2
  <2>3. QED BY <1>2, <1>3, <1>4, <1>7, <1>10, <1>11, <2>1, <2>2 DEF Linked
<1>16. Linked(g, d)
  <2>1. ASSUME NEW i \in 1..(l + 1)
        PROVE  /\ g[i].n \in 1..(m + 1) /\ g[i].size = d[g[i].n].size /\ g[i].at = d[g[i].n].at
               /\ Whole(d[g[i].n]) => g[i].flow = d[g[i].n].flow
               /\ BytesFrom(g, i) <= BytesFrom(d, g[i].n)
    <3>1. CASE i \in 1..l
      <4>1. g[i] = h[i] /\ h[i].n \in 1..(m + 1) BY <1>5, <1>10, <3>1
      <4>2. BytesFrom(g, i) = BytesFrom(h, i) + size BY <1>8
      <4>3. BytesFrom(g, i) <= BytesFrom(d, h[i].n) BY <1>10, <1>13, <1>14, <3>1, <4>2
      <4>4. QED BY <1>10, <3>1, <4>1, <4>3
    <3>2. CASE i = l + 1
      <4>1. g[i] = frame /\ frame.n = m + 1 /\ d[m + 1] = e BY <1>3, <1>4, <1>5, <3>2
      <4>2. BytesFrom(g, l + 1) = BytesFrom(h, l + 1) + size /\ BytesFrom(d, m + 1) = BytesFrom(c, m + 1) + size
        BY <1>7, <1>8
      <4>3. BytesFrom(h, l + 1) = BytesFrom(c, m + 1) BY <1>2, <1>3, EmptyEnds
      <4>4. BytesFrom(c, m + 1) \in Nat BY <1>9
      <4>5. BytesFrom(g, i) <= BytesFrom(d, g[i].n) BY <3>2, <4>1, <4>2, <4>3, <4>4
      <4>6. QED BY <4>1, <4>5
    <3>3. QED BY <3>1, <3>2
  <2>2. ASSUME NEW i \in 1..(l + 1), NEW j \in 1..(l + 1), i < j PROVE g[i].n < g[j].n
    <3>1. i \in 1..l /\ (j \in 1..l \/ j = l + 1) BY <2>2
    <3>2. CASE j \in 1..l BY <1>5, <1>11, <2>2, <3>1, <3>2
    <3>3. CASE j = l + 1
      <4>1. g[j].n = m + 1 BY <1>3, <1>5, <3>3
      <4>2. g[i].n \in 1..m BY <1>5, <1>10, <3>1
      <4>3. QED BY <4>1, <4>2
    <3>4. QED BY <3>1, <3>2, <3>3
  <2>3. QED BY <1>4, <1>5, <1>7, <1>8, <2>1, <2>2 DEF Linked
<1>17. HasRecent(g, d, t)
  <2> SUFFICES ASSUME NEW n \in 1..(m + 1), Whole(d[n]), d[n].flow # <<>>, Recent(d, n, t)
               PROVE  \E i \in 1..(l + 1) : g[i].n = n
    BY <1>4, <1>5 DEF HasRecent
  <2>1. CASE n \in 1..m
    <3>1. PICK i \in 1..l : h[i].n = n BY <1>12, <2>1
    <3>2. i \in 1..(l + 1) /\ g[i] = h[i] BY <1>5
    <3>3. QED BY <3>1, <3>2
  <2>2. CASE n = m + 1
    <3>1. l + 1 \in 1..(l + 1) /\ g[l + 1].n = n BY <1>3, <1>5, <2>2
    <3>2. QED BY <3>1
  <2>3. QED BY <2>1, <2>2
<1>18. frame.flow = <<>> => HasRecent(h, d, t)
  <2> SUFFICES ASSUME frame.flow = <<>>, NEW n \in 1..(m + 1), Whole(d[n]), d[n].flow # <<>>, Recent(d, n, t)
               PROVE  \E i \in 1..l : h[i].n = n
    BY <1>3, <1>4 DEF HasRecent
  <2>1. n # m + 1 BY <1>4
  <2>2. n \in 1..m BY <2>1
  <2>3. QED BY <1>12, <2>2
<1>19. QED BY <1>1, <1>15, <1>16, <1>17, <1>18

(***************************************************************************)
(* The session: what it should hold so far is in its file, or comes after     *)
(* all of it, the recording being over.                                      *)
(***************************************************************************)
KeptFrame(s, c, n) == s.began - c[n].at <= MaxAge /\ R!Bytes(SubSeq(c, n, s.after)) <= HistoryLimit
WantedOf(s, c) ==
  {n \in 1..Len(c) : /\ Whole(c[n]) /\ (n > s.after \/ KeptFrame(s, c, n))
                     /\ R!takes(s, c[n].flow, IF n > s.after THEN c[n].knew ELSE s.knew)}
Owned(s, c) == \A n \in Written(s) :
  Whole(c[n]) => c[n].flow # <<>> /\ (s.flow # <<>> => c[n].flow = s.flow)
RecordInv(s, c) ==
  /\ s \in Sessions(s) /\ Ordered(s) /\ Written(s) \subseteq 1..Len(c) /\ s.after \in 0..Len(c)
  /\ Owned(s, c) /\ Holds(s, WantedOf(s, c))
RecordingInv ==
  /\ R_now \in Nat /\ Linked(history, R_captured) /\ HasRecent(history, R_captured, R_now)
  /\ \A n \in 1..Len(R_captured) : R_captured[n].at \in Nat
  /\ RecordInv(R_recording, R_captured)

(* A session takes the same of the same frames, whatever it has written.     *)
LEMMA SameTarget ==
  ASSUME NEW s, NEW r, r \in Sessions(s)
  PROVE  /\ r.flow = s.flow /\ r.pid = s.pid /\ r.began = s.began /\ r.after = s.after /\ r.knew = s.knew
         /\ \A c : WantedOf(r, c) = WantedOf(s, c)
<1>1. r.flow = s.flow /\ r.pid = s.pid /\ r.began = s.began /\ r.after = s.after /\ r.knew = s.knew
  BY DEF Sessions
<1>2. \A f, k : R!takes(r, f, k) <=> R!takes(s, f, k) BY <1>1 DEF R!takes
<1>3. \A c, n : KeptFrame(r, c, n) <=> KeptFrame(s, c, n) BY <1>1 DEF KeptFrame
<1>4. QED BY <1>1, <1>2, <1>3 DEF WantedOf

(* Stopping a recording leaves what it has.                                  *)
LEMMA StopKeeps ==
  ASSUME NEW s, NEW c, RecordInv(s, c), NEW on \in BOOLEAN, on => s.on
  PROVE  RecordInv([s EXCEPT !.on = on], c)
<1>1. PICK r : r = [s EXCEPT !.on = on] OBVIOUS
<1>2. s \in Sessions(s) BY DEF RecordInv
<1>3. r \in Sessions(s) /\ r \in Sessions(r) /\ r.on = on /\ r.file = s.file BY <1>1, <1>2 DEF Sessions
<1>4. Written(r) = Written(s) /\ (Ordered(r) <=> Ordered(s)) BY <1>3 DEF Written, Ordered
<1>5. r.flow = s.flow /\ r.after = s.after /\ WantedOf(r, c) = WantedOf(s, c) BY <1>3, SameTarget
<1>6. Owned(r, c) BY <1>4, <1>5 DEF RecordInv, Owned
<1>7. ASSUME NEW n \in WantedOf(s, c) PROVE n \in Written(r) \/ Over(r, n)
  <2>1. n \in Written(s) \/ Over(s, n) BY DEF RecordInv, Holds
  <2>2. CASE n \in Written(s) BY <1>4, <2>2
  <2>3. CASE Over(s, n) BY <1>3, <1>4, <2>3 DEF Over
  <2>4. QED BY <2>1, <2>2, <2>3
<1>8. QED BY <1>1, <1>3, <1>4, <1>5, <1>6, <1>7 DEF RecordInv, Holds

(* A frame captured is written when the session takes it.                    *)
LEMMA FrameWritten ==
  ASSUME NEW s, NEW c, RecordInv(s, c), SizesKnown(c), Recordable, NEW e, e.size \in Nat,
         NEW frame, frame.n = Len(c) + 1, frame.size = e.size, Whole(e) => frame.flow = e.flow
  PROVE  RecordInv(R!Write(s, frame, e.knew), Append(c, e))
<1>1. PICK r, d : r = R!Write(s, frame, e.knew) /\ d = Append(c, e) OBVIOUS
<1>2. PICK m \in Nat : m = Len(c) BY SequenceIs DEF SizesKnown
<1>3. Len(d) = m + 1 /\ d[m + 1] = e /\ (\A n \in 1..m : d[n] = c[n]) /\ SizesKnown(d)
  BY <1>1, <1>2, OneMore, BytesFromAppend DEF SizesKnown
<1>4. /\ s \in Sessions(s) /\ Ordered(s) /\ Written(s) \subseteq 1..m /\ s.after \in 0..m
      /\ Owned(s, c) /\ Holds(s, WantedOf(s, c))
  BY <1>2 DEF RecordInv
<1>5. PICK W : W = WantedOf(s, c) OBVIOUS
<1>6. /\ r \in Sessions(s) /\ r \in Sessions(r) /\ Ordered(r)
      /\ Written(r) \subseteq Written(s) \cup Takes(s, frame, e.knew)
      /\ Holds(r, W \cup Takes(s, frame, e.knew))
  <2>1. frame.n \in Nat /\ frame.size \in Nat /\ FileLimit \in Nat BY <1>2 DEF Recordable
  <2>2. \A n \in Written(s) : n < frame.n BY <1>2, <1>4
  <2>3. Holds(s, W) BY <1>4, <1>5
  <2>4. QED BY <1>1, <1>4, <2>1, <2>2, <2>3, WriteOne
<1>7. Takes(s, frame, e.knew) \subseteq {m + 1} BY <1>2 DEF Takes
<1>8. Written(r) \subseteq 1..(m + 1) BY <1>4, <1>6, <1>7
<1>9. r.flow = s.flow /\ r.after = s.after /\ WantedOf(r, d) = WantedOf(s, d) BY <1>6, SameTarget
<1>10. Owned(r, d)
  <2> SUFFICES ASSUME NEW n \in Written(r), Whole(d[n])
               PROVE  d[n].flow # <<>> /\ (s.flow # <<>> => d[n].flow = s.flow)
    BY <1>9 DEF Owned
  <2>1. CASE n \in Written(s)
    <3>1. d[n] = c[n] BY <1>3, <1>4, <2>1
    <3>2. QED BY <1>4, <2>1, <3>1 DEF Owned
  <2>2. CASE n \in Takes(s, frame, e.knew)
    <3>1. n = m + 1 /\ R!takes(s, frame.flow, e.knew) BY <1>7, <2>2 DEF Takes
    <3>2. d[n] = e /\ frame.flow = e.flow BY <1>3, <3>1
    <3>3. QED BY <3>1, <3>2 DEF R!takes, R!None
  <2>3. QED BY <1>6, <2>1, <2>2
<1>11. WantedOf(s, d) \subseteq W \cup Takes(s, frame, e.knew)
  <2> SUFFICES ASSUME NEW n \in WantedOf(s, d) PROVE n \in W \cup Takes(s, frame, e.knew) OBVIOUS
  <2>1. /\ n \in 1..(m + 1) /\ Whole(d[n]) /\ (n > s.after \/ KeptFrame(s, d, n))
        /\ R!takes(s, d[n].flow, IF n > s.after THEN d[n].knew ELSE s.knew)
    BY <1>3 DEF WantedOf
  <2>2. CASE n = m + 1
    <3>1. d[n] = e /\ n > s.after BY <1>3, <1>4, <2>2
    <3>2. R!takes(s, e.flow, e.knew) /\ frame.flow = e.flow /\ frame.n = n BY <1>2, <2>1, <2>2, <3>1
    <3>3. n \in Takes(s, frame, e.knew) BY <3>2 DEF Takes
    <3>4. QED BY <3>3
  <2>3. CASE n # m + 1
    <3>1. n \in 1..m /\ d[n] = c[n] BY <1>3, <2>1, <2>3
    <3>2. n > s.after \/ KeptFrame(s, c, n)
      <4> SUFFICES ASSUME ~(n > s.after), KeptFrame(s, d, n) PROVE KeptFrame(s, c, n) BY <2>1
      <4>1. PICK k \in 0..m : k = s.after BY <1>4
      <4>2. n <= k /\ n \in 1..(m + 1) /\ n \in 1..((m + 1) + 1) /\ k \in 0..(m + 1) /\ n <= k + 1
        BY <1>4, <3>1, <4>1
      <4>3. PICK l \in Nat : l = k - n + 1 BY <4>2
      <4>4. PICK a, b : a = SubSeq(c, n, k) /\ b = SubSeq(d, n, k) OBVIOUS
      <4>5. Sized(a, l) /\ \A i \in 1..l : a[i] = c[n + i - 1]
        BY <1>2, <4>2, <4>3, <4>4, PartSized, PartOf DEF SizesKnown
      <4>6. Sized(b, l) /\ \A i \in 1..l : b[i] = d[n + i - 1]
        <5>1. n \in 1..(Len(d) + 1) /\ k \in 0..Len(d) /\ n <= k + 1 BY <1>3, <4>2
        <5>2. Sized(b, k - n + 1) BY <1>3, <4>4, <5>1, PartSized
        <5>3. \A i \in 1..(k - n + 1) : b[i] = d[n + i - 1] BY <1>3, <4>4, <5>1, PartOf DEF SizesKnown
        <5>4. QED BY <4>3, <5>2, <5>3
      <4>7. \A i \in 1..l : a[i].size = b[i].size
        <5>1. \A i \in 1..l : n + i - 1 \in 1..m BY <4>2, <4>3
        <5>2. QED BY <1>3, <4>5, <4>6, <5>1
      <4>8. l <= l OBVIOUS
      <4>9. R!Bytes(b) = R!Bytes(a) BY <4>5, <4>6, <4>7, <4>8, BytesOfMore
      <4>10. QED BY <3>1, <4>1, <4>4, <4>9 DEF KeptFrame
    <3>3. n \in WantedOf(s, c) BY <1>2, <2>1, <3>1, <3>2 DEF WantedOf
    <3>4. QED BY <1>5, <3>3
  <2>4. QED BY <2>2, <2>3
<1>12. Holds(r, WantedOf(r, d)) BY <1>6, <1>9, <1>11 DEF Holds
<1>13. r.after \in 0..(m + 1) BY <1>4, <1>9
<1>14. QED BY <1>1, <1>3, <1>6, <1>8, <1>10, <1>12, <1>13 DEF RecordInv

(* Every step of a recording.                                                *)
LEMMA FrameRecorded ==
  ASSUME RecordingInv, Recordable, NEW f \in Frames, NEW indexed,
         R!Frame(f[1], f[2], f[3], indexed)
  PROVE  RecordingInv'
<1>1. PICK e, frame :
        /\ e = [size |-> f[3], at |-> R_now, kind |-> f[2],
                flow |-> R!Flow(R!joined(f[1], f[2]), flows'), knew |-> flowsKnown]
        /\ frame = [n |-> Len(R_captured) + 1, size |-> f[3], at |-> R_now,
                    flow |-> R!Flow(R!unjoined(f[1], f[2]), flows')]
  OBVIOUS
<1>2. /\ R_captured' = Append(R_captured, e) /\ R_recording' = R!Write(R_recording, frame, flowsKnown)
      /\ history' = R!add(frame) /\ R_now' = R_now
  BY <1>1 DEF R!Frame
<1>0. PICK t \in Nat : t = R_now BY DEF RecordingInv
<1>3. PICK c, h : c = R_captured /\ h = history /\ t = R_now BY <1>0
<1>4. PICK d, g : d = Append(c, e) /\ g = Append(h, frame) OBVIOUS
<1>5. f[3] \in Nat BY DEF Recordable
<1>6. e.size \in Nat /\ e.at = t /\ e.knew = flowsKnown BY <1>1, <1>3, <1>5
<1>7. frame.n = Len(c) + 1 /\ frame.size = e.size /\ frame.at = e.at BY <1>1, <1>3
<1>8. Whole(e) => frame.flow = e.flow
  <2>1. e.kind # "later" => R!joined(f[1], f[2]) = R!unjoined(f[1], f[2])
    BY <1>1 DEF R!joined, R!unjoined
  <2>2. QED BY <1>1, <2>1 DEF Whole
<1>9. /\ Linked(h, c) /\ HasRecent(h, c, t) /\ RecordInv(R_recording, c)
      /\ \A n \in 1..Len(c) : c[n].at \in Nat
  BY <1>3 DEF RecordingInv
<1>10. SizesKnown(c) BY <1>9 DEF Linked
<1>11. RecordInv(R_recording', d)
  <2>1. RecordInv(R!Write(R_recording, frame, e.knew), d)
    BY <1>4, <1>6, <1>7, <1>8, <1>9, <1>10, FrameWritten
  <2>2. QED BY <1>2, <1>6, <2>1
<1>12. \A n \in 1..Len(d) : d[n].at \in Nat
  <2>1. PICK m \in Nat : m = Len(c) BY <1>10, SequenceIs DEF SizesKnown
  <2>2. Len(d) = m + 1 /\ d[m + 1] = e /\ \A n \in 1..m : d[n] = c[n]
    BY <1>4, <1>10, <2>1, OneMore DEF SizesKnown
  <2>3. \A n \in 1..(m + 1) : n \in 1..m \/ n = m + 1 OBVIOUS
  <2>4. \A n \in 1..m : d[n].at \in Nat BY <1>9, <2>1, <2>2
  <2>5. d[m + 1].at \in Nat BY <1>6, <2>2
  <2>6. QED BY <2>2, <2>3, <2>4, <2>5
<1>13. Linked(history', d) /\ HasRecent(history', d, t)
  <2>1. /\ frame.flow = <<>> => Linked(h, d) /\ HasRecent(h, d, t)
        /\ Linked(g, d) /\ HasRecent(g, d, t)
    BY <1>4, <1>6, <1>7, <1>8, <1>9, FrameLinked
  <2>2. CASE frame.flow = <<>>
    <3>1. history' = h BY <1>2, <1>3, <2>2 DEF R!add, R!None
    <3>2. QED BY <2>1, <2>2, <3>1
  <2>3. CASE frame.flow # <<>>
    <3>1. history' = R!trim(g, t) BY <1>2, <1>3, <1>4, <1>6, <1>7, <2>3 DEF R!add, R!None
    <3>2. Linked(R!trim(g, t), d) /\ HasRecent(R!trim(g, t), d, t) BY <1>12, <2>1, TrimKeeps
    <3>3. QED BY <3>1, <3>2
  <2>4. QED BY <2>2, <2>3
<1>14. R_captured' = d /\ R_now' = t BY <1>2, <1>3, <1>4
<1>15. QED BY <1>11, <1>12, <1>13, <1>14 DEF RecordingInv

LEMMA StartRecorded ==
  ASSUME RecordingInv, Recordable, NEW flow, NEW pid, R!Start(R!session(flow, pid))
  PROVE  RecordingInv'
<1>1. PICK s : s = R!session(flow, pid) OBVIOUS
<1>0. PICK t \in Nat : t = R_now BY DEF RecordingInv
<1>2. PICK c, h : c = R_captured /\ h = history /\ t = R_now BY <1>0
<1>3. /\ R_recording' = Given(s, h, flowsKnown) /\ history' = h /\ R_captured' = c /\ R_now' = t
  BY <1>1, <1>2 DEF R!Start, Given
<1>4. /\ Linked(h, c) /\ HasRecent(h, c, t) /\ \A n \in 1..Len(c) : c[n].at \in Nat
  BY <1>2 DEF RecordingInv
<1>5. PICK m \in Nat, l \in Nat : m = Len(c) /\ l = Len(h) /\ DOMAIN h = 1..l
  BY <1>4, SequenceIs DEF Linked, SizesKnown
<1>6. /\ s.flow = flow /\ s.pid = pid /\ s.file = <<>> /\ s.on = TRUE /\ s.bytes = 0
      /\ s.began = t /\ s.after = m /\ s.knew = flowsKnown /\ s \in Sessions(s)
  <2>1. s = [on |-> TRUE, flow |-> flow, pid |-> pid, until |-> s.until, bytes |-> 0, file |-> <<>>,
             began |-> t, after |-> m, knew |-> flowsKnown]
    BY <1>1, <1>2, <1>5 DEF R!session, R!NoSession
  <2>2. PICK until : until = s.until OBVIOUS
  <2>3. s = [on |-> TRUE, flow |-> flow, pid |-> pid, until |-> until, bytes |-> 0, file |-> <<>>,
             began |-> t, after |-> m, knew |-> flowsKnown]
    BY <2>1, <2>2
  <2>4. <<>> \in Seq(Nat) OBVIOUS
  <2>5. QED BY <2>3, <2>4 DEF Sessions
<1>7. PICK r : r = Given(s, h, flowsKnown) OBVIOUS
<1>8. /\ r \in Sessions(s) /\ r \in Sessions(r) /\ Ordered(r)
      /\ \A n \in Written(r) : \E i \in 1..l : h[i].n = n /\ R!takes(s, h[i].flow, flowsKnown)
      /\ \A i \in 1..l : R!takes(s, h[i].flow, flowsKnown) => h[i].n \in Written(r) \/ Over(r, h[i].n)
  <2>1. \A i \in 1..l : h[i].n \in 1..m /\ h[i].size = c[h[i].n].size BY <1>4, <1>5 DEF Linked
  <2>2. \A i \in 1..l : h[i].n \in Nat /\ h[i].size \in Nat BY <1>4, <1>5, <2>1 DEF Linked, SizesKnown
  <2>3. \A i, j \in 1..l : i < j => h[i].n < h[j].n BY <1>4, <1>5 DEF Linked
  <2>4. FileLimit \in Nat BY DEF Recordable
  <2>5. PICK k : k = flowsKnown OBVIOUS
  <2>6. DOMAIN h = 1..l /\ s \in Sessions(s) /\ s.file = <<>> BY <1>5, <1>6
  <2>7. /\ Given(s, h, k) \in Sessions(s) /\ Given(s, h, k) \in Sessions(Given(s, h, k)) /\ Ordered(Given(s, h, k))
        /\ \A n \in Written(Given(s, h, k)) : \E i \in 1..l : h[i].n = n /\ R!takes(s, h[i].flow, k)
        /\ \A i \in 1..l : R!takes(s, h[i].flow, k)
                            => h[i].n \in Written(Given(s, h, k)) \/ Over(Given(s, h, k), h[i].n)
    BY <2>2, <2>3, <2>4, <2>6, SessionStarts
  <2>8. QED BY <1>7, <2>5, <2>7
<1>9. r.flow = flow /\ r.after = m /\ WantedOf(r, c) = WantedOf(s, c) BY <1>6, <1>8, SameTarget
<1>10. \A i \in 1..l : h[i].n \in 1..m /\ (Whole(c[h[i].n]) => h[i].flow = c[h[i].n].flow)
  BY <1>4, <1>5 DEF Linked
<1>11. Written(r) \subseteq 1..m BY <1>8, <1>10
<1>12. Owned(r, c)
  <2> SUFFICES ASSUME NEW n \in Written(r), Whole(c[n])
               PROVE  c[n].flow # <<>> /\ (flow # <<>> => c[n].flow = flow)
    BY <1>9 DEF Owned
  <2>1. PICK i \in 1..l : h[i].n = n /\ R!takes(s, h[i].flow, flowsKnown) BY <1>8
  <2>2. h[i].flow = c[n].flow BY <1>10, <2>1
  <2>3. QED BY <1>6, <2>1, <2>2 DEF R!takes, R!None
<1>13. Holds(r, WantedOf(s, c))
  <2> SUFFICES ASSUME NEW n \in WantedOf(s, c) PROVE n \in Written(r) \/ Over(r, n) BY DEF Holds
  <2>1. n \in 1..m /\ Whole(c[n]) /\ KeptFrame(s, c, n) /\ R!takes(s, c[n].flow, flowsKnown)
    <3>1. n \in 1..m BY <1>5 DEF WantedOf
    <3>2. ~(n > s.after) BY <1>6, <3>1
    <3>3. QED BY <1>6, <3>1, <3>2 DEF WantedOf
  <2>2. c[n].flow # <<>> BY <2>1 DEF R!takes, R!None
  <2>3. Recent(c, n, t) BY <1>5, <1>6, <2>1 DEF KeptFrame, Recent, BytesFrom
  <2>4. PICK i \in 1..l : h[i].n = n BY <1>4, <1>5, <2>1, <2>2, <2>3 DEF HasRecent
  <2>5. h[i].flow = c[n].flow BY <1>10, <2>1, <2>4
  <2>6. QED BY <1>8, <2>1, <2>4, <2>5
<1>14. RecordInv(r, c)
  <2>1. m \in 0..m OBVIOUS
  <2>2. QED BY <1>5, <1>8, <1>9, <1>11, <1>12, <1>13, <2>1 DEF RecordInv
<1>15. QED BY <1>3, <1>4, <1>7, <1>14 DEF RecordingInv

LEMMA TickRecorded == ASSUME RecordingInv, Recordable, R!Tick PROVE RecordingInv'
<1>0. PICK t \in Nat : t = R_now BY DEF RecordingInv
<1>1. PICK c, h : c = R_captured /\ h = history /\ t = R_now BY <1>0
<1>2. PICK on : on = (R_recording.on /\ R_now' < R_recording.until) OBVIOUS
<1>3. /\ R_now' = t + 1 /\ R_captured' = c /\ history' = R!trim(h, t + 1)
      /\ R_recording' = [R_recording EXCEPT !.on = on]
  BY <1>1, <1>2 DEF R!Tick
<1>4. /\ Linked(h, c) /\ HasRecent(h, c, t) /\ RecordInv(R_recording, c)
      /\ \A n \in 1..Len(c) : c[n].at \in Nat
  BY <1>1 DEF RecordingInv
<1>5. on \in BOOLEAN /\ (on => R_recording.on)
  BY <1>2
<1>6. RecordInv(R_recording', c) BY <1>3, <1>4, <1>5, StopKeeps
<1>7. HasRecent(h, c, t + 1)
  <2>1. \A n \in 1..Len(c) : Recent(c, n, t + 1) => Recent(c, n, t) BY <1>4 DEF Recent, Recordable
  <2>2. QED BY <1>4, <2>1 DEF HasRecent
<1>8. Linked(history', c) /\ HasRecent(history', c, t + 1)
  <2>1. t + 1 \in Nat OBVIOUS
  <2>2. QED BY <1>3, <1>4, <1>7, <2>1, TrimKeeps
<1>9. QED BY <1>3, <1>4, <1>6, <1>8 DEF RecordingInv

LEMMA RecordingStarts == ASSUME R!Init, Recordable PROVE RecordingInv
<1>1. history = <<>> /\ R_captured = <<>> /\ R_now = 0 /\ R_recording = R!NoSession BY DEF R!Init
<1>2. SizesKnown(<<>>)
  <2>1. <<>> \in Seq({}) /\ Len(<<>>) = 0 OBVIOUS
  <2>2. QED BY <2>1 DEF SizesKnown, Sequence
<1>3. Linked(<<>>, <<>>) /\ HasRecent(<<>>, <<>>, 0) BY <1>2 DEF Linked, HasRecent
<1>4. PICK s : s = R!NoSession OBVIOUS
<1>5. s \in Sessions(s) /\ s.file = <<>> /\ s.after = 0
  <2>1. <<>> \in Seq(Nat) OBVIOUS
  <2>2. QED BY <1>4, <2>1 DEF R!NoSession, Sessions
<1>6. Written(s) = {} /\ Ordered(s) BY <1>5 DEF Written, Ordered
<1>7. WantedOf(s, <<>>) = {} BY DEF WantedOf
<1>8. RecordInv(s, <<>>) BY <1>5, <1>6, <1>7 DEF RecordInv, Owned, Holds
<1>9. QED BY <1>1, <1>3, <1>4, <1>8 DEF RecordingInv

(* What the session holds is what the property asks of the file.             *)
LEMMA FileIsTargets == ASSUME RecordingInv PROVE R!TargetRecorded
<1>1. PICK s, c : s = R_recording /\ c = R_captured OBVIOUS
<1>2. RecordInv(s, c) /\ Linked(history, c) BY <1>1 DEF RecordingInv
<1>3. PICK m \in Nat : m = Len(c) /\ DOMAIN c = 1..m BY <1>2, SequenceIs DEF Linked, SizesKnown
<1>4. s.file \in Seq(Nat) BY <1>2 DEF RecordInv, Sessions
<1>5. PICK l \in Nat : l = Len(s.file) /\ DOMAIN s.file = 1..l BY <1>4
<1>6. R!ToSet(s.file) = Written(s) BY <1>5 DEF R!ToSet, Written
<1>7. PICK F : F = {n \in DOMAIN R_captured : R_captured[n].kind # "later"} OBVIOUS
<1>8. \A n \in F : n \in 1..m /\ Whole(c[n]) BY <1>1, <1>3, <1>7 DEF Whole
<1>9. \A i \in 1..(l - 1) : s.file[i] < s.file[i + 1]
  <2>1. \A i \in 1..(l - 1) : i \in 1..l /\ i + 1 \in 1..l /\ i < i + 1 OBVIOUS
  <2>2. QED BY <1>2, <1>5, <2>1 DEF RecordInv, Ordered
<1>10. ASSUME NEW n \in R!Wanted \cap F
       PROVE  n \in Written(s) \/ (~s.on /\ (s.file = <<>> \/ n > R!Last(s.file)))
  <2>1. n \in WantedOf(s, c)
    <3>1. n \in 1..m /\ Whole(c[n]) BY <1>8
    <3>2. n > s.after \/ KeptFrame(s, c, n) BY <1>1 DEF R!Wanted, R!Kept, KeptFrame
    <3>3. R!takes(s, c[n].flow, IF n > s.after THEN c[n].knew ELSE s.knew) BY <1>1 DEF R!Wanted
    <3>4. QED BY <1>3, <3>1, <3>2, <3>3 DEF WantedOf
  <2>2. n \in Written(s) \/ Over(s, n) BY <1>2, <2>1 DEF RecordInv, Holds
  <2>3. ASSUME Over(s, n), s.file # <<>> PROVE n > R!Last(s.file)
    <3>1. l # 0 BY <1>4, <1>5, <2>3
    <3>2. l \in 1..l BY <3>1
    <3>3. s.file[l] \in Written(s) BY <1>5, <3>2 DEF Written
    <3>4. s.file[l] < n BY <2>3, <3>3 DEF Over
    <3>5. R!Last(s.file) = s.file[l] BY <1>5 DEF R!Last
    <3>6. s.file[l] \in Nat /\ n \in Nat BY <1>4, <1>5, <1>8, <3>2
    <3>7. QED BY <3>4, <3>5, <3>6
  <2>4. QED BY <2>2, <2>3 DEF Over
<1>11. \A n \in Written(s) \cap F : c[n].flow # R!None /\ (s.flow # R!None => c[n].flow = s.flow)
  BY <1>2, <1>8 DEF RecordInv, Owned, R!None
<1>12. R!FileHolds(F) BY <1>1, <1>5, <1>6, <1>9, <1>10, <1>11 DEF R!FileHolds
<1>13. QED BY <1>7, <1>12 DEF R!TargetRecorded

(* A recording's file has the frames of its connection or its process, in     *)
(* order and without a gap, from the oldest that the history promises to      *)
(* where it ends (Write, frameHistory, startCapture).                        *)
THEOREM Recorded == ASSUME Recordable PROVE RecordingSpec => []TargetRecorded
<1>1. R!Init => RecordingInv BY RecordingStarts
<1>2. RecordingInv /\ [R!Next]_R!vars => RecordingInv'
  <2> SUFFICES ASSUME RecordingInv, [R!Next]_R!vars PROVE RecordingInv' OBVIOUS
  <2>1. ASSUME NEW f \in Frames, NEW indexed \in BOOLEAN, R!Frame(f[1], f[2], f[3], indexed)
        PROVE  RecordingInv'
    BY <2>1, FrameRecorded
  <2>2. ASSUME NEW x, R!StartFlow(x) PROVE RecordingInv' BY <2>2, StartRecorded DEF R!StartFlow
  <2>3. ASSUME NEW x, R!StartPID(x) PROVE RecordingInv' BY <2>3, StartRecorded DEF R!StartPID
  <2>4. ASSUME NEW x, R!Attribute(x) \/ R!Leave(x) PROVE RecordingInv'
    BY <2>4 DEF RecordingInv, R!Attribute, R!Leave
  <2>5. ASSUME R!Tick PROVE RecordingInv' BY <2>5, TickRecorded
  <2>6. ASSUME R!Stop PROVE RecordingInv'
    <3>1. /\ R_recording' = [R_recording EXCEPT !.on = FALSE] /\ R_captured' = R_captured
          /\ history' = history /\ R_now' = R_now
      BY <2>6 DEF R!Stop
    <3>2. RecordInv(R_recording, R_captured) BY DEF RecordingInv
    <3>3. RecordInv([R_recording EXCEPT !.on = FALSE], R_captured) BY <3>2, StopKeeps
    <3>4. QED BY <3>1, <3>3 DEF RecordingInv
  <2>7. CASE UNCHANGED R!vars BY <2>7 DEF RecordingInv, R!vars
  <2>8. QED BY <2>1, <2>2, <2>3, <2>4, <2>5, <2>6, <2>7 DEF R!Next
<1>3. RecordingInv => TargetRecorded BY FileIsTargets DEF TargetRecorded
<1>4. QED BY <1>1, <1>2, <1>3, PTL DEF RecordingSpec
===============================================================================
