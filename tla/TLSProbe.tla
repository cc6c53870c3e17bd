------------------------------ MODULE TLSProbe ------------------------------
(* The OpenSSL probe (openssl.bpf.c): programs on the entry and the return of *)
(* library functions follow which socket an SSL uses and which server name it *)
(* has, and send both when a handshake starts.                                *)
(*                                                                            *)
(* One process.  An SSL and a BIO are known by their address, which malloc    *)
(* gives out again; a socket by its descriptor, which the kernel gives out    *)
(* again, and here by its number.  An SSL is used by one thread at a time, a  *)
(* BIO is attached to an SSL that had none, and SSL_connect sends on no other *)
(* socket than its own.  The LRU maps evict at any time; the maps of calls    *)
(* have room for every thread (8192).                                         *)
EXTENDS Naturals
CONSTANTS Threads, SSLs, BIOs, Fds, Names, MaxSockets
VARIABLES
  socket, opened, \* by descriptor: its socket, 0: closed; sockets so far
  bio,            \* by address: the descriptor of a socket BIO, NoFd: freed
  ssl,            \* by address: what the library knows, Free: freed
  thread,         \* the library call a thread is in
  calls, bio_calls, active_connects, \* by thread
  ssl_states, bio_fds, \* by address
  event           \* the last one sent, and what was so
vars == <<socket, opened, bio, ssl, thread, calls, bio_calls, active_connects, ssl_states, bio_fds, event>>

NoFd == "no descriptor"
NoName == "no name"
Free == [used |-> FALSE, fd |-> NoFd, custom |-> 0, name |-> NoName]
NoState == [known |-> FALSE, fd |-> NoFd, hostname |-> NoName]
Outside == [in |-> "none", ssl |-> "none"]
NoCall == [in |-> "none"]
NoConnect == [ssl |-> "none", emitted |-> FALSE]
NoEvent == [said |-> <<0, NoName>>, is |-> <<0, NoName>>]

Init ==
  /\ socket = [f \in Fds |-> 0] /\ opened = 0
  /\ bio = [b \in BIOs |-> NoFd] /\ ssl = [s \in SSLs |-> Free]
  /\ thread = [t \in Threads |-> Outside]
  /\ calls = [t \in Threads |-> NoCall] /\ bio_calls = [t \in Threads |-> NoFd]
  /\ active_connects = [t \in Threads |-> NoConnect]
  /\ ssl_states = [s \in SSLs |-> NoState] /\ bio_fds = [b \in BIOs |-> NoFd]
  /\ event = NoEvent

world == <<socket, opened>>
maps == <<calls, bio_calls, active_connects, ssl_states, bio_fds>>
idle(t) == thread[t] = Outside
mine(s) == ssl[s].used /\ \A u \in Threads : thread[u].ssl # s

(* ---- sockets and objects of the program ---- *)
Open(f) ==
  /\ socket[f] = 0 /\ opened < MaxSockets
  /\ opened' = opened + 1 /\ socket' = [socket EXCEPT ![f] = opened']
  /\ UNCHANGED <<bio, ssl, thread, maps, event>>
Close(f) ==
  /\ socket[f] # 0 /\ socket' = [socket EXCEPT ![f] = 0]
  /\ UNCHANGED <<opened, bio, ssl, thread, maps, event>>
SSL_new(s) ==
  /\ ~ssl[s].used /\ ssl' = [ssl EXCEPT ![s].used = TRUE]
  /\ UNCHANGED <<world, bio, thread, maps, event>>
SetCustom(s) == \* a BIO of the program's own on an open socket
  /\ mine(s)
  /\ ssl[s].fd = NoFd /\ ssl[s].custom = 0
  /\ \E f \in Fds : socket[f] # 0 /\ ssl' = [ssl EXCEPT ![s].custom = socket[f]]
  /\ UNCHANGED <<world, bio, thread, maps, event>>

(* ---- what the programs share ---- *)
get_state(s) == [ssl_states[s] EXCEPT !.known = TRUE]
talks(s) == IF ssl[s].fd \in Fds THEN socket[ssl[s].fd] ELSE ssl[s].custom
emit_sock(s, state, sk) ==
  event' = [said |-> <<sk, state.hostname>>, is |-> <<talks(s), ssl[s].name>>]
emits(state) ==
  /\ state.known /\ state.fd # NoFd /\ state.hostname # NoName /\ socket[state.fd] # 0
emit(s, state) ==
  IF emits(state) THEN emit_sock(s, state, socket[state.fd]) ELSE UNCHANGED event
Enter(t, call) == idle(t) /\ mine(call.ssl) /\ thread' = [thread EXCEPT ![t] = call]
remember(t, call) == calls' = [calls EXCEPT ![t] = call]

(* ---- SSL_set_fd ---- *)
set_fd_enter(t, s, f) ==
  /\ socket[f] # 0 /\ ssl[s].custom = 0
  /\ LET call == [in |-> "set_fd", ssl |-> s, fd |-> f] IN Enter(t, call) /\ remember(t, call)
  /\ UNCHANGED <<world, bio, ssl, bio_calls, active_connects, ssl_states, bio_fds, event>>
set_fd_return(t) ==
  /\ thread[t].in = "set_fd"
  /\ \E ok \in BOOLEAN :
       /\ ssl' = IF ok THEN [ssl EXCEPT ![thread[t].ssl].fd = thread[t].fd] ELSE ssl
       /\ ssl_states' = IF ok /\ calls[t] # NoCall
                        THEN [ssl_states EXCEPT ![calls[t].ssl] = [get_state(calls[t].ssl) EXCEPT !.fd = calls[t].fd]]
                        ELSE ssl_states
  /\ thread' = [thread EXCEPT ![t] = Outside] /\ calls' = [calls EXCEPT ![t] = NoCall]
  /\ UNCHANGED <<world, bio, bio_calls, active_connects, bio_fds, event>>

(* ---- BIO_new_socket, SSL_set_bio and SSL_set0_rbio, BIO_free ---- *)
bio_new_socket_enter(t, f) ==
  /\ idle(t) /\ socket[f] # 0 /\ thread' = [thread EXCEPT ![t] = [in |-> "new_socket", ssl |-> "none", fd |-> f]]
  /\ bio_calls' = [bio_calls EXCEPT ![t] = f]
  /\ UNCHANGED <<world, bio, ssl, calls, active_connects, ssl_states, bio_fds, event>>
bio_new_socket_return(t, b) ==
  /\ thread[t].in = "new_socket" /\ bio[b] = NoFd
  /\ bio' = [bio EXCEPT ![b] = thread[t].fd]
  /\ bio_fds' = IF bio_calls[t] = NoFd THEN bio_fds ELSE [bio_fds EXCEPT ![b] = bio_calls[t]]
  /\ bio_calls' = [bio_calls EXCEPT ![t] = NoFd] /\ thread' = [thread EXCEPT ![t] = Outside]
  /\ UNCHANGED <<world, ssl, calls, active_connects, ssl_states, event>>
set_bio_fd(t, s, b) ==
  /\ idle(t) /\ mine(s) /\ bio[b] # NoFd /\ ssl[s].fd = NoFd /\ ssl[s].custom = 0
  /\ ssl' = [ssl EXCEPT ![s].fd = bio[b]]
  /\ ssl_states' = IF bio_fds[b] = NoFd THEN ssl_states
                   ELSE [ssl_states EXCEPT ![s] = [get_state(s) EXCEPT !.fd = bio_fds[b]]]
  /\ UNCHANGED <<world, bio, thread, calls, bio_calls, active_connects, bio_fds, event>>
bio_free_enter(b) ==
  /\ bio[b] # NoFd /\ bio' = [bio EXCEPT ![b] = NoFd] /\ bio_fds' = [bio_fds EXCEPT ![b] = NoFd]
  /\ UNCHANGED <<world, ssl, thread, calls, bio_calls, active_connects, ssl_states, event>>

(* ---- SSL_ctrl (the server name) and SSL_get_servername ---- *)
ctrl_enter(t, s, name) ==
  /\ LET call == [in |-> "ctrl", ssl |-> s, name |-> name] IN Enter(t, call) /\ remember(t, call)
  /\ UNCHANGED <<world, bio, ssl, bio_calls, active_connects, ssl_states, bio_fds, event>>
ctrl_return(t) ==
  /\ thread[t].in = "ctrl"
  /\ \E ok \in BOOLEAN :
       /\ ssl' = IF ok THEN [ssl EXCEPT ![thread[t].ssl].name = thread[t].name] ELSE ssl
       /\ ssl_states' = IF ok /\ calls[t] # NoCall
                        THEN [ssl_states EXCEPT ![calls[t].ssl] = [get_state(calls[t].ssl) EXCEPT !.hostname = calls[t].name]]
                        ELSE ssl_states
  /\ thread' = [thread EXCEPT ![t] = Outside] /\ calls' = [calls EXCEPT ![t] = NoCall]
  /\ UNCHANGED <<world, bio, bio_calls, active_connects, bio_fds, event>>
get_servername_enter(t, s) ==
  /\ LET call == [in |-> "servername", ssl |-> s] IN Enter(t, call) /\ remember(t, call)
  /\ UNCHANGED <<world, bio, ssl, bio_calls, active_connects, ssl_states, bio_fds, event>>
get_servername_return(t) == \* a server's SSL has the name from the client's hello
  /\ thread[t].in = "servername"
  /\ LET s == thread[t].ssl IN \E name \in Names \cup {NoName} :
       /\ ssl[s].name # NoName => name = ssl[s].name
       /\ ssl' = [ssl EXCEPT ![s].name = name]
       /\ IF calls[t] # NoCall /\ name # NoName
          THEN LET state == [get_state(s) EXCEPT !.hostname = name] IN
               /\ ssl_states' = [ssl_states EXCEPT ![s] = state]
               /\ IF emits(state) THEN event' = [said |-> <<socket[state.fd], name>>, is |-> <<talks(s), name>>]
                  ELSE UNCHANGED event
          ELSE UNCHANGED <<ssl_states, event>>
  /\ thread' = [thread EXCEPT ![t] = Outside] /\ calls' = [calls EXCEPT ![t] = NoCall]
  /\ UNCHANGED <<world, bio, bio_calls, active_connects, bio_fds>>

(* ---- the handshake ---- *)
connect_enter(t, s) ==
  /\ Enter(t, [in |-> "connect", ssl |-> s]) /\ emit(s, ssl_states[s])
  /\ active_connects' = [active_connects EXCEPT ![t] = [ssl |-> s, emitted |-> FALSE]]
  /\ UNCHANGED <<world, bio, ssl, calls, bio_calls, ssl_states, bio_fds>>
(* A custom BIO may hide its descriptor: the send within SSL_connect has the  *)
(* socket.                                                                    *)
connect_tcp_send(t) ==
  /\ thread[t].in = "connect" /\ active_connects[t] # NoConnect /\ ~active_connects[t].emitted
  /\ LET s == active_connects[t].ssl
         state == ssl_states[s]
         sk == talks(thread[t].ssl) IN
     /\ sk # 0 /\ state.known /\ state.fd = NoFd /\ state.hostname # NoName
     /\ emit_sock(s, state, sk)
  /\ active_connects' = [active_connects EXCEPT ![t].emitted = TRUE]
  /\ UNCHANGED <<world, bio, ssl, thread, calls, bio_calls, ssl_states, bio_fds>>
connect_return(t) ==
  /\ thread[t].in = "connect" /\ thread' = [thread EXCEPT ![t] = Outside]
  /\ active_connects' = [active_connects EXCEPT ![t] = NoConnect]
  /\ UNCHANGED <<world, bio, ssl, calls, bio_calls, ssl_states, bio_fds, event>>
handshake_enter(t, s) ==
  /\ idle(t) /\ mine(s) /\ emit(s, ssl_states[s])
  /\ UNCHANGED <<world, bio, ssl, thread, maps>>

forgetNothing(s) == ssl_states \* mutant: SSL_free leaves the state behind
forget(s) == [ssl_states EXCEPT ![s] = NoState]
free_enter(t, s) ==
  /\ idle(t) /\ mine(s)
  /\ ssl' = [ssl EXCEPT ![s] = Free] /\ ssl_states' = forget(s)
  /\ UNCHANGED <<world, bio, thread, calls, bio_calls, active_connects, bio_fds, event>>

(* The LRU maps evict. *)
Evict ==
  /\ \/ \E s \in SSLs : ssl_states[s] # NoState /\ ssl_states' = forget(s) /\ UNCHANGED bio_fds
     \/ \E b \in BIOs : bio_fds[b] # NoFd /\ bio_fds' = [bio_fds EXCEPT ![b] = NoFd] /\ UNCHANGED ssl_states
  /\ UNCHANGED <<world, bio, ssl, thread, calls, bio_calls, active_connects, event>>

Next ==
  \/ \E f \in Fds : Open(f) \/ Close(f)
  \/ \E s \in SSLs : SSL_new(s) \/ SetCustom(s)
  \/ \E b \in BIOs : bio_free_enter(b)
  \/ \E t \in Threads :
       \/ \E f \in Fds : bio_new_socket_enter(t, f)
       \/ \E b \in BIOs : bio_new_socket_return(t, b)
       \/ \E s \in SSLs :
            \/ \E f \in Fds : set_fd_enter(t, s, f)
            \/ \E b \in BIOs : set_bio_fd(t, s, b)
            \/ \E name \in Names : ctrl_enter(t, s, name)
            \/ get_servername_enter(t, s) \/ connect_enter(t, s) \/ handshake_enter(t, s) \/ free_enter(t, s)
       \/ set_fd_return(t) \/ ctrl_return(t) \/ get_servername_return(t)
       \/ connect_tcp_send(t) \/ connect_return(t)
  \/ Evict

(* An event has the name of the SSL and the socket that SSL talks on, although *)
(* addresses and descriptors are used again, map entries go at any time and   *)
(* calls of several threads overlap.                                          *)
EventsAreRight == event.said = event.is
=============================================================================
