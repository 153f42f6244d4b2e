------------------------------ MODULE TimeoutList ------------------------------
(***************************************************************************)
(* lwIP's one list of timeouts (core/timeouts.c) and the three tasks that  *)
(* change it: tcpip_thread, networkTask, which calls sys_check_timeouts    *)
(* every 10 ms (NetworkCycle.c), and mqtt_task, which adds the timeout of  *)
(* SNTP (start_sntp_service).  Only tcpip_thread holds the core lock.  It  *)
(* has a higher priority than the other two and networkTask a higher one   *)
(* than mqtt_task, so a step of tcpip_thread is one call of a timeout, and *)
(* the steps of the others are their accesses to the list.                 *)
(***************************************************************************)
EXTENDS Integers, Sequences, FiniteSets

CONSTANTS
    Timers,  \* the handlers of lwip_cyclic_timers and sntp_request
    Sntp,    \* sntp_request, a member of Timers
    Period,  \* timer -> the time after which it runs again, above 0
    MaxNow,  \* bound on the clock
    None     \* NULL

\* The members of the pool MEMP_SYS_TIMEOUT that are ever used, as the last one
\* freed is the first to be allocated.
Cells == 1 .. Cardinality(Timers)

VARIABLES
    head,  \* next_timeout
    next,  \* cell -> its next
    timer, \* cell -> its h
    due,   \* cell -> its time
    free,  \* the free cells, the next one to be allocated first
    dueTime, \* current_timeout_due_time
    now,   \* sys_now()
    net,   \* networkTask in sys_check_timeouts: where it is
    tmp,   \* its tmptimeout
    run,   \* the handler it has read from tmptimeout
    mqtt,  \* mqtt_task in sys_timeout_abs: where it is
    new, t \* its timeout and t, None for the head of the list

list == <<head, next, timer, due, free, dueTime>>
netTask == <<net, tmp, run>>
mqttTask == <<mqtt, new, t>>
vars == <<list, now, netTask, mqttTask>>

\* The cell at a place of the list that begins at h.
Walk(h, n) ==
    LET at[k \in Nat] == IF k = 0 THEN h
                         ELSE IF at[k - 1] = None THEN None ELSE n[at[k - 1]]
    IN  at

OnList(h, n) == {Walk(h, n)[k] : k \in 0 .. Cardinality(Cells)} \ {None}

\* The cell after which sys_timeout_abs puts a timeout, None at the head: the search
\* goes as far as the cells are not later.
Before(h, n, d, time) ==
    LET earlier == {k \in 0 .. Cardinality(Cells) - 1 :
                      \A j \in 0 .. k : Walk(h, n)[j] # None /\ d[Walk(h, n)[j]] <= time}
    IN  IF earlier = {} THEN None
        ELSE Walk(h, n)[CHOOSE k \in earlier : \A j \in earlier : j <= k]

\* lwip_cyclic_timer, for a timeout that was due at d: it is late by the time of its
\* handler only; sntp_request takes its time from now.
NextTime(x, d) ==
    IF x # Sntp /\ d + Period[x] >= now THEN d + Period[x] ELSE now + Period[x]

\* sys_timeout_abs in one step, on the list h, n and the free cells f.
AddTo(h, n, f, x, time) ==
    LET c == Head(f)
        b == Before(h, n, due, time)
    IN  /\ free' = Tail(f)
        /\ timer' = [timer EXCEPT ![c] = x] /\ due' = [due EXCEPT ![c] = time]
        /\ IF b = None THEN head' = c /\ next' = [n EXCEPT ![c] = h]
           ELSE head' = h /\ next' = [n EXCEPT ![c] = n[b], ![b] = c]

\* sys_timeouts_init has started the cyclic timers, in an order of their times.
Init ==
    \E order \in [1 .. Cardinality(Timers) - 1 -> Timers \ {Sntp}] :
        LET last == Cardinality(Timers) - 1
        IN  /\ \A i, j \in 1 .. last :
                  i < j => order[i] # order[j] /\ Period[order[i]] <= Period[order[j]]
            /\ head = IF last = 0 THEN None ELSE 1
            /\ next = [c \in Cells |-> IF c < last THEN c + 1 ELSE None]
            /\ timer = [c \in Cells |-> IF c <= last THEN order[c] ELSE None]
            /\ due = [c \in Cells |-> IF c <= last THEN Period[order[c]] ELSE 0]
            /\ free = <<last + 1>> /\ dueTime = 0 /\ now = 0
            /\ net = "idle" /\ tmp = None /\ run = None
            /\ mqtt = "before" /\ new = None /\ t = None

Tick == now < MaxNow /\ now' = now + 1 /\ UNCHANGED <<list, netTask, mqttTask>>

Expired == head # None /\ due[head] <= now

\* tcpip_thread runs an expired timeout, whose handler starts it again.
TcpipThread ==
    /\ Expired
    /\ AddTo(next[head], next, <<head>> \o free, timer[head], NextTime(timer[head], due[head]))
    /\ dueTime' = due[head]
    /\ UNCHANGED <<now, netTask, mqttTask>>

-----------------------------------------------------------------------------
(***************************************************************************)
(* networkTask: sys_check_timeouts                                         *)
(***************************************************************************)
NetReads ==
    /\ net = "idle" /\ Expired
    /\ net' = "unlink" /\ tmp' = head
    /\ UNCHANGED <<list, now, run, mqttTask>>

NetUnlinks ==
    /\ net = "unlink"
    /\ head' = next[tmp] /\ run' = timer[tmp] /\ dueTime' = due[tmp] /\ net' = "free"
    /\ UNCHANGED <<next, timer, due, free, now, tmp, mqttTask>>

NetFrees ==
    /\ net = "free"
    /\ free' = <<tmp>> \o free /\ net' = "call"
    /\ UNCHANGED <<head, next, timer, due, dueTime, now, tmp, run, mqttTask>>

NetCalls ==
    /\ net = "call" /\ free # <<>>
    /\ AddTo(head, next, free, run, NextTime(run, dueTime))
    /\ net' = "idle" /\ tmp' = None /\ run' = None
    /\ UNCHANGED <<dueTime, now, mqttTask>>

-----------------------------------------------------------------------------
(***************************************************************************)
(* mqtt_task: sys_timeout for sntp_request, while networkTask waits        *)
(***************************************************************************)
MqttAllocates ==
    /\ mqtt = "before" /\ net = "idle" /\ free # <<>>
    /\ new' = Head(free) /\ free' = Tail(free)
    /\ timer' = [timer EXCEPT ![Head(free)] = Sntp]
    /\ due' = [due EXCEPT ![Head(free)] = now + Period[Sntp]]
    /\ mqtt' = "search"
    /\ UNCHANGED <<head, next, dueTime, now, netTask, t>>

MqttSearches ==
    /\ mqtt = "search" /\ net = "idle"
    /\ t' = Before(head, next, due, due[new]) /\ mqtt' = "link"
    /\ UNCHANGED <<list, now, netTask, new>>

MqttLinks ==
    /\ mqtt = "link" /\ net = "idle"
    /\ IF t = None THEN head' = new /\ next' = [next EXCEPT ![new] = head]
       ELSE head' = head /\ next' = [next EXCEPT ![new] = next[t], ![t] = new]
    /\ mqtt' = "after" /\ new' = None /\ t' = None
    /\ UNCHANGED <<timer, due, free, dueTime, now, netTask>>

Next ==
    \/ Tick \/ TcpipThread \/ NetReads \/ NetUnlinks \/ NetFrees \/ NetCalls
    \/ MqttAllocates \/ MqttSearches \/ MqttLinks

Spec == Init /\ [][Next]_vars

-----------------------------------------------------------------------------
\* opt.h:216-222 has sys_check_timeouts and sys_timeout check that the "TCPIP core
\* lock is held", so that the list is changed by one task at a time: a timer that
\* was started is on the list, or with the task that is about to put it there.
NoTimerIsLost ==
    \A x \in Timers :
        \/ \E c \in OnList(head, next) : timer[c] = x
        \/ net # "idle" /\ run = x
        \/ x = Sntp /\ mqtt # "after"
=============================================================================
