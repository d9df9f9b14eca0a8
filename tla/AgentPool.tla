------------------------------ MODULE AgentPool -----------------------------
(***************************************************************************)
(* The persistent connections of searchd to remote agents: RentPersistent  *)
(* and InitPersistentPool of src/src/searchd.cpp.                          *)
(*                                                                         *)
(* One array holds a stride for every host: first how many of its slots    *)
(* are free, then the slots.  A free slot has a connected socket or -1;    *)
(* -1 in the first place means that the pool has just been cleared.  The   *)
(* queries rent a slot each and return it, all under one mutex.            *)
(***************************************************************************)
EXTENDS Integers, FiniteSets, FiniteSetsExt

CONSTANTS
  Hosts,      \* number of hosts with persistent connections, numbered from 0
  PoolSize,   \* persistent_connections_limit
  Fd,         \* numbers of descriptors
  OtherFd,    \* descriptors of other things (files, listeners)
  ReloadBusy  \* is the config reloaded while connections are rented?

ASSUME PoolAssumption ==
  /\ Hosts \in Nat \ {0} /\ PoolSize \in Nat \ {0}
  /\ Fd \subseteq Nat /\ OtherFd \subseteq Fd /\ ReloadBusy \in BOOLEAN

VARIABLES
  conns,   \* g_dPersistentConnections
  open,    \* the open descriptors
  unread,  \* connections with a request whose reply has not been read to its end
  other,   \* what another query has rented: the host, and a socket or -1
  leaked   \* history: the connections that InitPersistentPool has dropped and left open

poolVars == <<conns, open, unread, other, leaked>>

-----------------------------------------------------------------------------
NoSlot      == -2
NobodyRents == [host |-> -1, sock |-> NoSlot]
Host      == 0..Hosts - 1
Stride    == PoolSize + 1
Base(h)   == h * Stride

FreeSlots(c, h) == IF c[Base(h)] = -1 THEN PoolSize ELSE c[Base(h)]

\* RentConnection: the socket, -1 for a slot without one, or -2.
Rented(c, h) == IF FreeSlots(c, h) = 0 THEN NoSlot ELSE c[Base(h) + FreeSlots(c, h)]

\* Mutant: the slot stays free.
AfterRent_KeepsFree(c, h) ==
  IF FreeSlots(c, h) = 0 THEN c ELSE [c EXCEPT ![Base(h)] = FreeSlots(c, h)]

AfterRent(c, h) ==
  IF FreeSlots(c, h) = 0 THEN c
  ELSE [c EXCEPT ![Base(h) + FreeSlots(c, h)] = -1, ![Base(h)] = FreeSlots(c, h) - 1]

\* ReturnConnection.  A pool that was cleared meanwhile gets the socket for a count.
AfterReturn(c, h, fd) ==
  IF c[Base(h)] = PoolSize THEN c
  ELSE [c EXCEPT ![Base(h)] = @ + 1, ![Base(h) + c[Base(h)] + 1] = fd]

ReturnCloses(c, h, fd) == IF c[Base(h)] = PoolSize THEN {fd} ELSE {}

\* socket() takes the lowest free number.
FreeFd == Fd \ open
NewFd  == Min(FreeFd)

CloseFds(S) == open' = open \ S /\ unread' = unread \ S

-----------------------------------------------------------------------------
(* Another query to a host, and a reload of the config. *)

OtherRent ==
  /\ other = NobodyRents
  /\ \E h \in Host : 
       /\ Rented(conns, h) # NoSlot
       /\ other' = [host |-> h, sock |-> Rented(conns, h)]
       /\ conns' = AfterRent(conns, h)
  /\ UNCHANGED <<open, unread, leaked>>

OtherConnect ==
  /\ other # NobodyRents /\ other.sock = -1 /\ FreeFd # {}
  /\ other' = [other EXCEPT !.sock = NewFd] /\ open' = open \cup {NewFd}
  /\ UNCHANGED <<conns, unread, leaked>>

\* Its connection has failed or is good for the next query.
OtherReturn ==
  /\ other # NobodyRents
  /\ \E fd \in {other.sock, -1} :
       /\ conns' = AfterReturn(conns, other.host, fd)
       /\ CloseFds(ReturnCloses(conns, other.host, fd) \cup ({other.sock} \ {fd}))
  /\ other' = NobodyRents
  /\ UNCHANGED leaked

Slots  == {i \in DOMAIN conns : \E h \in Host : i > Base(h) /\ i <= Base(h) + conns[Base(h)]}
Pooled == {conns[i] : i \in Slots} \ {-1}

\* What InitPersistentPool closes before it clears the array.  Its test of the index is
\* meant to skip the counts, and skips some of the slots as well.
ResetCloses == {conns[i] : i \in {j \in DOMAIN conns : j % PoolSize # 0 /\ conns[j] >= 0}}

InitPersistentPool ==
  /\ CloseFds(ResetCloses)
  /\ conns' = [i \in DOMAIN conns |-> -1]
  /\ leaked' = (leaked \cup Pooled) \ ResetCloses
  /\ UNCHANGED other

PoolInit ==
  /\ conns = [i \in 0..Hosts * Stride - 1 |-> -1]
  /\ open = OtherFd
  /\ unread = {}
  /\ other = NobodyRents
  /\ leaked = {}

-----------------------------------------------------------------------------
(* Properties *)

PoolTypeOK ==
  /\ DOMAIN conns = 0..Hosts * Stride - 1
  /\ \A h \in Host : conns[Base(h)] \in -1..PoolSize
  /\ open \subseteq Fd /\ unread \subseteq open /\ leaked \subseteq open
  /\ other = NobodyRents \/ other \in [host : Host, sock : Fd \cup {-1}]

\* "always close all persistent connections before (re)calculation" (searchd.cpp 19573):
\* a reload leaves no connection of the pool open.
ResetClosesAll == leaked = {}
=============================================================================
