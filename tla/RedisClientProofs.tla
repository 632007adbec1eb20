-------------------------- MODULE RedisClientProofs --------------------------
(***************************************************************************)
(* What connect and handle_timeout do with contexts, for any number of     *)
(* clients that share the time of the last attempt, and any longest wait.  *)
(***************************************************************************)
EXTENDS RedisClient, TLAPS

(* A context is the client's to free exactly until its first connection,    *)
(* so that none that hiredis has connected, or freed, is.                   *)
Owned(c) == m_delete_redis_context[c] => context[c] \in {"none", "connecting", "error"}
NothingLost == (\A c \in Clients : m_delete_redis_context[c]) => lost = 0
IInv == TypeOK /\ CommandsHaveContext /\ (\A c \in Clients : Owned(c)) /\ NothingLost

LEMMA InitIInv == Init => IInv
  BY WaitAssumption DEF Init, IInv, TypeOK, CommandsHaveContext, Owned, NothingLost, Statuses,
                        Contexts

(* The wait doubles, and stays within bounds.                               *)
LEMMA NextIntervalBounds ==
  ASSUME NEW i \in 1 .. Longest
  PROVE  NextInterval(i) \in 1 .. Longest
  BY WaitAssumption DEF NextInterval

LEMMA CappedBounds ==
  ASSUME NEW max \in Nat, NEW n \in Nat
  PROVE  Capped(n, max) \in 0 .. max
  BY DEF Capped

(* connect keeps what is said of contexts, whoever calls it.                *)
LEMMA AttemptIInv ==
  ASSUME IInv, NEW c \in Clients, Attempt(c),
         UNCHANGED <<m_delete_redis_context, up>>,
         m_timeout_interval' \in [Clients -> 1 .. Longest],
         since' \in 0 .. Longest, due' \subseteq Clients
  PROVE  IInv'
<1>1. TypeOK'
  <2>1. lost' \in 0 .. MaxLost
    BY WaitAssumption, CappedBounds DEF Attempt, IInv, TypeOK
  <2>2. /\ m_client_status' \in [Clients -> Statuses]
        /\ m_timer_id' \in [Clients -> BOOLEAN]
        /\ context' \in [Clients -> Contexts]
    BY DEF Attempt, IInv, TypeOK, Statuses, Contexts
  <2>3. age' \in [Clients -> 0 .. Latency]
    BY WaitAssumption DEF Attempt, IInv, TypeOK
  <2>. QED
    BY <2>1, <2>2, <2>3 DEF IInv, TypeOK
<1>2. CommandsHaveContext'
  BY DEF Attempt, IInv, TypeOK, CommandsHaveContext
<1>3. \A d \in Clients : Owned(d)'
  BY DEF Attempt, IInv, TypeOK, Owned
<1>4. NothingLost'
  BY DEF Attempt, IInv, TypeOK, NothingLost
<1>. QED
  BY <1>1, <1>2, <1>3, <1>4 DEF IInv

LEMMA NextIInv == IInv /\ [Next]_vars => IInv'
<1>. SUFFICES ASSUME IInv, [Next]_vars
              PROVE  IInv'
  OBVIOUS
<1>. USE DEF IInv
<1>1. CASE Second
  <2>1. since' \in 0 .. Longest
    BY <1>1, WaitAssumption DEF Second, TypeOK, Capped
  <2>2. age' \in [Clients -> 0 .. Latency]
    BY <1>1, WaitAssumption DEF Second, TypeOK, Capped
  <2>3. TypeOK'
    BY <1>1, <2>1, <2>2 DEF Second, TypeOK, clientVars
  <2>. QED
    BY <1>1, <2>3 DEF Second, CommandsHaveContext, Owned, NothingLost, clientVars
<1>2. ASSUME NEW c \in Clients, Connect(c)
      PROVE  IInv'
  BY <1>2, AttemptIInv DEF Connect, TypeOK
<1>3. ASSUME NEW c \in Clients, HandleTimeout(c)
      PROVE  IInv'
  <2>1. CASE Reconnect(c)
    <3>1. m_timeout_interval' \in [Clients -> 1 .. Longest]
      BY <2>1, NextIntervalBounds DEF Reconnect, TypeOK
    <3>2. since' \in 0 .. Longest /\ due' \subseteq Clients
      BY <2>1, WaitAssumption DEF Reconnect, TypeOK
    <3>. QED
      BY <2>1, <3>1, <3>2, AttemptIInv DEF Reconnect
  <2>2. CASE SendCommands(c) \/ Waits(c)
    BY <2>2 DEF SendCommands, Waits, TypeOK, CommandsHaveContext, Owned, NothingLost, clientVars
  <2>. QED
    BY <1>3, <2>1, <2>2 DEF HandleTimeout
<1>4. ASSUME NEW c \in Clients, Open(c)
      PROVE  IInv'
  <2>1. TypeOK' /\ CommandsHaveContext'
    BY <1>4 DEF Open, TypeOK, CommandsHaveContext, Statuses, Contexts
  <2>2. \A d \in Clients : Owned(d)'
    BY <1>4 DEF Open, TypeOK, Owned
  <2>3. NothingLost'
    BY <1>4 DEF Open, TypeOK, NothingLost
  <2>. QED
    BY <2>1, <2>2, <2>3
<1>5. ASSUME NEW c \in Clients, ConnectFails(c) \/ HandleClose(c)
      PROVE  IInv'
  <2>1. TypeOK' /\ CommandsHaveContext'
    BY <1>5 DEF ConnectFails, HandleClose, TypeOK, CommandsHaveContext, Statuses, Contexts,
                clientVars
  <2>2. (\A d \in Clients : Owned(d)') /\ NothingLost'
    BY <1>5 DEF ConnectFails, HandleClose, TypeOK, Owned, NothingLost, clientVars
  <2>. QED
    BY <2>1, <2>2
<1>6. ASSUME NEW c \in Clients, ServerStops(c) \/ ServerStarts(c)
      PROVE  IInv'
  <2>1. TypeOK' /\ CommandsHaveContext'
    BY <1>6 DEF ServerStops, ServerStarts, TypeOK, CommandsHaveContext, Contexts, clientVars
  <2>2. (\A d \in Clients : Owned(d)') /\ NothingLost'
    BY <1>6 DEF ServerStops, ServerStarts, TypeOK, Owned, NothingLost, clientVars
  <2>. QED
    BY <2>1, <2>2
<1>7. CASE UNCHANGED vars
  BY <1>7 DEF vars, clientVars, TypeOK, CommandsHaveContext, Owned, NothingLost
<1>. QED
  BY <1>1, <1>2, <1>3, <1>4, <1>5, <1>6, <1>7 DEF Next, Answered

(* Commands are sent to contexts that hiredis has not freed, in any number  *)
(* of clients (handle_timeout, redis_client.hpp:123).                       *)
THEOREM CommandsTheorem == Spec => []CommandsHaveContext
<1>1. IInv => CommandsHaveContext
  BY DEF IInv
<1>. QED
  BY <1>1, InitIInv, NextIInv, PTL DEF Spec

(* connect frees no context twice, nor one that hiredis frees, and forgets  *)
(* none before the first connection (clear_redis_context, 175, and open).   *)
THEOREM ContextsFreedTheorem == Spec => []ContextsFreed
<1>1. IInv => ContextsFreed
  BY DEF IInv, Owned, NothingLost, ContextsFreed
<1>. QED
  BY <1>1, InitIInv, NextIInv, PTL DEF Spec
=============================================================================
