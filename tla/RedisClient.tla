----------------------------- MODULE RedisClient -----------------------------
(***************************************************************************)
(* CRedisClient of src/async_redis_client/redis_client.hpp: clients that a *)
(* timer of the reactor makes connect again, after 1, 2, 4, ... seconds,   *)
(* while they have no connection.  The code has neither the reactor nor    *)
(* hiredis, which connects in the background: of hiredis it takes (271)    *)
(* that the context of an attempt that failed is the client's to free, and *)
(* that of a connection that is lost is freed by hiredis.                  *)
(***************************************************************************)
EXTENDS Integers

CONSTANTS Clients,
          Longest, \* 32: the longest time between attempts, in seconds
          Latency, \* bound of the models: seconds in which connecting is done
          MaxLost  \* bound of the models: the count of lost contexts stops here

ASSUME WaitAssumption ==
  /\ Longest \in Nat \ {0}
  /\ Latency \in 0 .. Longest - 1
  /\ MaxLost \in Nat

VARIABLES
  m_client_status,        \* of each client: "UNCONNECTED", "CONNECTING", "CONNECTED"
  m_timer_id,             \* whether its timer is registered
  m_timeout_interval,     \* seconds to wait before the next attempt
  m_delete_redis_context, \* whether the context is the client's to free
  context,                \* m_redis_context: "none", or what has become of it
  lost,                   \* contexts that nobody will free
  since,                  \* now - last_tm, up to Longest: one for all the clients
  age,                    \* seconds since connect was called, up to Latency
  due,                    \* clients whose timer has expired
  up                      \* external: whether the server of each client runs

clientVars == <<m_client_status, m_timer_id, m_timeout_interval, m_delete_redis_context>>
Capped(n, max) == IF n > max THEN max ELSE n
vars == <<clientVars, context, lost, since, age, due, up>>

Init ==
  /\ m_client_status = [c \in Clients |-> "UNCONNECTED"]
  /\ m_timer_id = [c \in Clients |-> FALSE]
  /\ m_timeout_interval = [c \in Clients |-> 1]
  /\ m_delete_redis_context = [c \in Clients |-> TRUE]
  /\ context = [c \in Clients |-> "none"]
  /\ lost = 0
  /\ since = Longest
  /\ age = [c \in Clients |-> 0]
  /\ due = {}
  /\ up \in [Clients -> BOOLEAN]

-----------------------------------------------------------------------------
(* connect: the old context is freed, or else forgotten.  The new one is in *)
(* error at once, or not made, or it is attached to the reactor; the timer  *)
(* is registered then only.                                                 *)
Attempt(c) ==
  /\ m_client_status' = [m_client_status EXCEPT ![c] = "CONNECTING"]
  /\ lost' = IF ~m_delete_redis_context[c] /\ context[c] \in {"connecting", "error"}
             THEN Capped(lost + 1, MaxLost) ELSE lost
  /\ age' = [age EXCEPT ![c] = 0]
  /\ \/ /\ context' = [context EXCEPT ![c] = "connecting"]
        /\ m_timer_id' = [m_timer_id EXCEPT ![c] = TRUE]
     \/ /\ ~up[c]
        /\ \E x \in {"none", "error"} : context' = [context EXCEPT ![c] = x]
        /\ UNCHANGED m_timer_id

(* The program connects, and may try again where no timer does.             *)
Connect(c) ==
  /\ ~m_timer_id[c]
  /\ Attempt(c)
  /\ UNCHANGED <<m_timeout_interval, m_delete_redis_context, since, due, up>>

(* Mutant: the wait starts again too soon.                                  *)
NextIntervalShort(i) == IF 2 * i > Latency THEN 1 ELSE 2 * i
NextInterval(i) == IF 2 * i > Longest THEN 1 ELSE 2 * i

(* handle_timeout, with a connection: commands are sent.                    *)
SendCommands(c) ==
  /\ c \in due
  /\ m_client_status[c] = "CONNECTED"
  /\ due' = due \ {c}
  /\ UNCHANGED <<clientVars, context, lost, since, age, up>>

(* Without one, and long enough after the last attempt of any client.       *)
Reconnect(c) ==
  /\ c \in due
  /\ m_client_status[c] # "CONNECTED"
  /\ since >= m_timeout_interval[c]
  /\ due' = due \ {c}
  /\ Attempt(c)
  /\ m_timeout_interval' = [m_timeout_interval EXCEPT ![c] = NextInterval(@)]
  /\ since' = 0
  /\ UNCHANGED <<m_delete_redis_context, up>>

Waits(c) ==
  /\ c \in due
  /\ m_client_status[c] # "CONNECTED"
  /\ since < m_timeout_interval[c]
  /\ due' = due \ {c}
  /\ UNCHANGED <<clientVars, context, lost, since, age, up>>

HandleTimeout(c) == SendCommands(c) \/ Reconnect(c) \/ Waits(c)

-----------------------------------------------------------------------------
(* A second passes, and the timers expire; what a context is waiting for is *)
(* known in time, and the handlers of the second before have run.           *)
Pending(c) == context[c] = "connecting" /\ age[c] >= Latency
Second ==
  /\ due = {}
  /\ \A c \in Clients : ~Pending(c)
  /\ since' = Capped(since + 1, Longest)
  /\ age' = [c \in Clients |-> Capped(age[c] + 1, Latency)]
  /\ due' = {c \in Clients : m_timer_id[c]}
  /\ UNCHANGED <<clientVars, context, lost, up>>

(* hiredis has a connection, and calls connectCallBack, which calls open.   *)
(* Mutant: the context stays the client's to free.                          *)
OpenToFree(c) ==
  /\ context[c] = "connecting" /\ up[c]
  /\ context' = [context EXCEPT ![c] = "connected"]
  /\ m_client_status' = [m_client_status EXCEPT ![c] = "CONNECTED"]
  /\ m_timer_id' = [m_timer_id EXCEPT ![c] = TRUE]
  /\ UNCHANGED <<m_timeout_interval, m_delete_redis_context, lost, since, age, due, up>>

Open(c) ==
  /\ context[c] = "connecting" /\ up[c]
  /\ context' = [context EXCEPT ![c] = "connected"]
  /\ m_client_status' = [m_client_status EXCEPT ![c] = "CONNECTED"]
  /\ m_delete_redis_context' = [m_delete_redis_context EXCEPT ![c] = FALSE]
  /\ m_timer_id' = [m_timer_id EXCEPT ![c] = TRUE]
  /\ UNCHANGED <<m_timeout_interval, lost, since, age, due, up>>

(* connectCallBack with an error only logs it.                              *)
ConnectFails(c) ==
  /\ context[c] = "connecting" /\ ~up[c]
  /\ context' = [context EXCEPT ![c] = "error"]
  /\ UNCHANGED <<clientVars, lost, since, age, due, up>>

(* The connection is lost: disconnectCallBack calls handle_close, and       *)
(* hiredis frees the context.  Mutant: the status is left.                  *)
HandleCloseQuietly(c) ==
  /\ context[c] = "broken"
  /\ context' = [context EXCEPT ![c] = "freed"]
  /\ UNCHANGED <<clientVars, lost, since, age, due, up>>

HandleClose(c) ==
  /\ context[c] = "broken"
  /\ context' = [context EXCEPT ![c] = "freed"]
  /\ m_client_status' = [m_client_status EXCEPT ![c] = "UNCONNECTED"]
  /\ UNCHANGED <<m_timer_id, m_timeout_interval, m_delete_redis_context, lost, since, age,
                 due, up>>

Answered(c) == Open(c) \/ ConnectFails(c) \/ HandleClose(c)

ServerStops(c) ==
  /\ up[c]
  /\ up' = [up EXCEPT ![c] = FALSE]
  /\ context' = [context EXCEPT ![c] = IF @ = "connected" THEN "broken" ELSE @]
  /\ UNCHANGED <<clientVars, lost, since, age, due>>

ServerStarts(c) ==
  /\ ~up[c]
  /\ up' = [up EXCEPT ![c] = TRUE]
  /\ UNCHANGED <<clientVars, context, lost, since, age, due>>

Next ==
  \/ Second
  \/ \E c \in Clients : \/ Connect(c) \/ HandleTimeout(c) \/ Answered(c)
                        \/ ServerStops(c) \/ ServerStarts(c)

Spec == Init /\ [][Next]_vars

(* The reactor calls handlers, time passes, and an attempt that is not      *)
(* given up before has its outcome after Latency seconds at the latest.     *)
FairSpec ==
  /\ Spec
  /\ WF_vars(Second)
  /\ \A c \in Clients : /\ WF_vars(HandleTimeout(c))
                        /\ WF_vars(Pending(c) /\ Answered(c))
                        /\ WF_vars(HandleClose(c))

-----------------------------------------------------------------------------
Statuses == {"UNCONNECTED", "CONNECTING", "CONNECTED"}
Contexts == {"none", "connecting", "error", "connected", "broken", "freed"}
TypeOK ==
  /\ m_client_status \in [Clients -> Statuses]
  /\ m_timer_id \in [Clients -> BOOLEAN]
  /\ m_timeout_interval \in [Clients -> 1 .. Longest]
  /\ m_delete_redis_context \in [Clients -> BOOLEAN]
  /\ context \in [Clients -> Contexts]
  /\ lost \in 0 .. MaxLost
  /\ since \in 0 .. Longest
  /\ age \in [Clients -> 0 .. Latency]
  /\ due \subseteq Clients
  /\ up \in [Clients -> BOOLEAN]

(* The commands of handle_timeout go to a context that hiredis still has.   *)
CommandsHaveContext ==
  \A c \in Clients : m_client_status[c] = "CONNECTED" => context[c] \in {"connected", "broken"}

(* What connect frees is not freed already, and as long as a client has     *)
(* never been connected, nothing is lost to it.  (After that, the contexts  *)
(* of attempts that fail are.)                                              *)
ContextsFreed ==
  /\ \A c \in Clients : m_delete_redis_context[c] => context[c] # "freed"
  /\ (\A c \in Clients : m_delete_redis_context[c]) => lost = 0

(* Clients that have a timer get their connections once all servers stay    *)
(* up: though an attempt is given up for the next when it takes longer than *)
(* the wait, and though an attempt of one client puts off the other's.      *)
Reconnects ==
  \A c \in Clients :
    <>[](\A d \in Clients : up[d]) /\ <>m_timer_id[c] => <>[](m_client_status[c] = "CONNECTED")
=============================================================================
