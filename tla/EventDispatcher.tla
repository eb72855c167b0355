--------------------------- MODULE EventDispatcher ---------------------------
(***************************************************************************)
(* network::EventDispatcher: hands each event of a batch to every handler, *)
(* in the order of subscription, before the next event.  The module has no *)
(* specification of its own; ConnectionPipeline runs it.                   *)
(***************************************************************************)
EXTENDS Integers, Sequences

VARIABLES handlers,  \* subscribed handlers, oldest first
          queue,     \* events of the running dispatch still to be delivered
          at         \* the handler that gets the first of them next

Init == handlers = <<>> /\ queue = <<>> /\ at = 1

Idle == queue = <<>>

\* An empty std::function is ignored.
subscribe(h, isEmpty) ==
    /\ handlers' = IF isEmpty THEN handlers ELSE Append(handlers, h)
    /\ UNCHANGED <<queue, at>>

clear == handlers' = <<>> /\ UNCHANGED <<queue, at>>

\* Without handlers a dispatch does nothing.
dispatch(events) ==
    /\ Idle
    /\ queue' = IF handlers = <<>> THEN <<>> ELSE events
    /\ at' = 1
    /\ UNCHANGED handlers

\* Fault: only the first handler gets an event.
InvokeFirst(h, event) ==
    /\ ~Idle
    /\ h = handlers[at]
    /\ event = Head(queue)
    /\ queue' = Tail(queue)
    /\ UNCHANGED <<handlers, at>>

\* The next handler is called with the next event.
Invoke(h, event) ==
    /\ ~Idle
    /\ h = handlers[at]
    /\ event = Head(queue)
    /\ IF at = Len(handlers)
       THEN queue' = Tail(queue) /\ at' = 1
       ELSE at' = at + 1 /\ UNCHANGED queue
    /\ UNCHANGED handlers

\* The next handler throws.  Nothing catches it: dispatch is left, and with it
\* every call that was still to be made.
Throw(h) ==
    /\ ~Idle
    /\ h = handlers[at]
    /\ queue' = <<>>
    /\ at' = 1
    /\ UNCHANGED handlers
=============================================================================
