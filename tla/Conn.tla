-------------------------------- MODULE Conn --------------------------------
(***************************************************************************)
(* The connections of one reactor (net/reactor.c): their events, replies   *)
(* from other shards, the Master Flush over the dirty list, the dead list  *)
(* and the release of connections.                                         *)
(***************************************************************************)
EXTENDS Pipeline, Functions

CONSTANTS
    Conns,      \* the clients; each connects once
    Script,     \* the requests a client sends
    Splitting,  \* clients whose requests may arrive in two pieces
    MaxFaults   \* bound on resets, failed allocations and full sockets

ASSUME ConnAssumption ==
    /\ Script \in [Conns -> Seq(Kinds)]
    /\ Splitting \subseteq Conns
    /\ MaxFaults \in Nat

VARIABLES
    r,          \* the reactor: its connections, dirty list and dead list
    phase,      \* where net_reactor_run is: "events" or "flush"
    handled,    \* connections whose event of this epoll_wait was handled
    turn,       \* flips with each turn of the Master Flush loop
    faults      \* resets, failed allocations and full sockets so far

vars == <<r, phase, handled, turn, faults>>

---------------------------------------------------------------------------
(* The lists *)

\* A connection is on a list at most once.
Without(list, c) ==
    LET at == {i \in DOMAIN list : list[i] = c}
        cut(i) == SubSeq(list, 1, i - 1) \o SubSeq(list, i + 1, Len(list))
    IN  IF at = {} THEN list ELSE cut(CHOOSE i \in at : TRUE)

ListRemove(g, c) ==
    [g EXCEPT !.dirty = Without(@, c), !.dead = Without(@, c)]

MarkDirty(g, c) ==
    IF c \in Range(g.dirty) THEN g
    ELSE [ListRemove(g, c) EXCEPT !.dirty = <<c>> \o @]

MarkDead(g, c) ==
    IF c \in Range(g.dead) THEN g
    ELSE [ListRemove(g, c) EXCEPT !.conn[c] = Dead(@), !.dead = <<c>> \o @]

MarkClosing(g, c) ==
    IF g.conn[c].state # "alive" THEN g
    ELSE MarkDirty([g EXCEPT !.conn[c].state = "closing"], c)

\* net_conn_free.  A second call reads the connection as it was when the
\* first freed it.
Freed(g, c) ==
    [g EXCEPT !.conn[c].freed = @ + 1,
              !.conn[c].refs[g.conn[c].nb + 1] = @ - 1]

\* net_conn_try_free.
\* Mutants of TryFree: it does not wait for the pipeline; the connection
\* stays on its list.
TryFreeEarly(g, c) ==
    LET k == g.conn[c]
    IN  IF k.state = "closing" /\ Unsent(k) # << >> THEN g
        ELSE Freed([ListRemove(g, c) EXCEPT !.conn[c].fd = FALSE], c)

TryFreeListed(g, c) ==
    LET k == g.conn[c]
    IN  IF ~Drained(k) \/ (k.state = "closing" /\ Unsent(k) # << >>) THEN g
        ELSE Freed([g EXCEPT !.conn[c].fd = FALSE], c)

TryFree(g, c) ==
    LET k == g.conn[c]
    IN  IF ~Drained(k) \/ (k.state = "closing" /\ Unsent(k) # << >>) THEN g
        ELSE Freed([ListRemove(g, c) EXCEPT !.conn[c].fd = FALSE], c)

---------------------------------------------------------------------------
(* Reading and writing *)

TryFlush(g, c) == [g EXCEPT !.conn[c] = Flushed(@)]

\* The parse loop of handle_read_resp.
Parse(g, c, oom) ==
    LET done(k) == IF k.state = "dead" THEN MarkDead([g EXCEPT !.conn[c] = k], c)
                   ELSE [g EXCEPT !.conn[c] = k]
    IN  done(ParseAll(g.conn[c], Script[c], oom))

\* Mutant of Settle: the connection is marked dirty without need.
SettleDirty(g, c) ==
    IF g.conn[c].state = "dead" THEN g ELSE MarkDirty(TryFlush(g, c), c)

\* The end of handle_read_resp.
Settle(g, c) ==
    LET then(h) == IF Drained(h.conn[c]) /\ h.conn[c].wbuf = << >> THEN h
                   ELSE MarkDirty(h, c)
    IN  IF g.conn[c].state = "dead" THEN g ELSE then(TryFlush(g, c))

\* handle_read_resp; oom: allocations fail.
HandleRead(g, c, oom) ==
    LET k == g.conn[c]
        closed(h) == IF k.eof THEN MarkClosing(h, c) ELSE h
    IN  IF k.rst \/ (oom /\ NeedsRoom(k)) THEN MarkDead(g, c)
        ELSE Settle(Parse(closed([g EXCEPT !.conn[c] = ReadAll(@)]), c, oom), c)

\* net_read_handler.
ReadHandler(g, c, oom) == MarkDirty(HandleRead(g, c, oom), c)

\* The end of net_write_handler, with the connection as the writes left it.
WriteDone(g, c) ==
    CASE g.conn[c].state = "alive"   -> ListRemove(g, c)
      [] g.conn[c].state = "closing" -> TryFree(g, c)
      [] OTHER                       -> g

Wrote(g, c, k) ==
    CASE Unsent(k) = << >> ->
           WriteDone([g EXCEPT !.conn[c] = [k EXCEPT !.want_write = FALSE,
                                                     !.wbuf = << >>,
                                                     !.wbuf_sent = 0]], c)
      [] Unsent(k) # << >> /\ k.rst -> MarkDead([g EXCEPT !.conn[c] = k], c)
      [] OTHER -> MarkDirty([g EXCEPT !.conn[c] =
                                [k EXCEPT !.want_write = TRUE]], c)

\* net_write_handler, when the socket takes room units before EAGAIN.
WriteHandler(g, c, room) ==
    Wrote(g, c, WriteAll(g.conn[c], room))

\* What the socket may take: everything, or less when it is full.
Rooms(c) ==
    LET all == Len(Script[c])
    IN  CASE r.conn[c].rst                           -> {0}
          [] ~r.conn[c].rst /\ faults = MaxFaults    -> {all}
          [] OTHER                                   -> 0..all

Memory == IF faults = MaxFaults THEN {FALSE} ELSE BOOLEAN

Smooth(c) == IF r.conn[c].rst THEN 0 ELSE Len(Script[c])

\* A full socket or a failed allocation counts when it made a difference.
Faults(smooth) == IF r' = smooth THEN faults ELSE faults + 1

---------------------------------------------------------------------------
(* The clients *)

\* net_accept_handler; when epoll_ctl fails the connection is born dead.
Accept(c, added) ==
    /\ phase = "events"
    /\ r.conn[c].state = "none"
    /\ LET g == [r EXCEPT !.conn[c].state = "alive", !.conn[c].fd = TRUE]
       IN  r' = IF added THEN g ELSE MarkDead(g, c)
    /\ UNCHANGED <<phase, handled, turn, faults>>

Connected(c) == r.conn[c].fd /\ ~r.conn[c].eof /\ ~r.conn[c].rst

\* A whole request, or one half of it.
Send(c, n) ==
    LET k == r.conn[c]
    IN  /\ Connected(c)
        /\ k.sent + n <= Unit * Len(Script[c])
        /\ k.sent % Unit = 0 \/ n = 1
        /\ n = Unit \/ c \in Splitting
        /\ r' = [r EXCEPT !.conn[c].sent = @ + n, !.conn[c].sock = @ + n,
                          !.conn[c].edge = TRUE]
        /\ UNCHANGED <<phase, handled, turn, faults>>

Close(c) ==
    /\ Connected(c)
    /\ r' = [r EXCEPT !.conn[c].eof = TRUE, !.conn[c].edge = TRUE]
    /\ UNCHANGED <<phase, handled, turn, faults>>

PeerReset(c) ==
    /\ Connected(c) /\ faults < MaxFaults
    /\ r' = [r EXCEPT !.conn[c].rst = TRUE, !.conn[c].edge = TRUE,
                      !.conn[c].sock = 0]
    /\ faults' = faults + 1
    /\ UNCHANGED <<phase, handled, turn>>

---------------------------------------------------------------------------
(* net_reactor_run *)

\* What one epoll event of connection c leads to.
Handled(g, c, writable, room, oom) ==
    LET k == g.conn[c]
        out(h) == IF writable /\ h.conn[c].state # "dead"
                  THEN WriteHandler(h, c, room) ELSE h
        hup(h) == IF k.eof THEN MarkClosing(h, c) ELSE h
    IN  CASE k.rst                              -> MarkDead(g, c)
          [] ~k.rst /\ (k.sock > 0 \/ k.eof)    -> out(hup(ReadHandler(g, c, oom)))
          [] OTHER                              -> out(g)

Event(c, writable, room, oom) ==
    /\ phase = "events" /\ c \notin handled
    /\ r.conn[c].fd
    /\ writable => r.conn[c].want_write
    /\ r.conn[c].edge \/ writable
    /\ LET g == [r EXCEPT !.conn[c].edge = FALSE]
       IN  /\ r' = Handled(g, c, writable, room, oom)
           /\ faults' = Faults(Handled(g, c, writable, Smooth(c), FALSE))
    /\ handled' = handled \cup {c}
    /\ UNCHANGED <<phase, turn>>

\* Mutant of Reply: the connection is not marked dirty.
ReplyQuietly(c, seq) ==
    /\ phase = "events"
    /\ seq \in r.conn[c].out..r.conn[c].in-1
    /\ SlotAt(r.conn[c], seq).state = "pending"
    /\ r' = [r EXCEPT !.conn[c].slots[Index(r.conn[c], seq)].state = "done"]
    /\ UNCHANGED <<phase, handled, turn, faults>>

\* net_reactor_proxy_reply_callback, or the same for a command that was
\* deferred behind a lock of this shard.
Reply(c, seq) ==
    /\ phase = "events"
    /\ seq \in r.conn[c].out..r.conn[c].in-1
    /\ SlotAt(r.conn[c], seq).state = "pending"
    /\ r' = MarkDirty([r EXCEPT !.conn[c].slots[Index(r.conn[c], seq)].state = "done"], c)
    /\ UNCHANGED <<phase, handled, turn, faults>>

StartFlush ==
    /\ phase = "events"
    /\ phase' = "flush"
    /\ turn' = FALSE
    /\ UNCHANGED <<r, handled, faults>>

\* The body of the Master Flush loop for the head of the dirty list.
FlushOf(g, c, room, oom) ==
    LET read == g.conn[c].fd /\ Torn(g.conn[c])
        closing(h) == IF h.conn[c].state = "closing" THEN TryFree(h, c) ELSE h
        write(h) == IF h.conn[c].fd /\ Unsent(h.conn[c]) # << >>
                    THEN WriteHandler(h, c, room) ELSE h
        rest(h) == IF read /\ h.conn[c].state = "dead" THEN h
                   ELSE closing(write(TryFlush(h, c)))
    IN  rest(IF read THEN HandleRead(g, c, oom) ELSE g)

FlushOne(room, oom) ==
    /\ phase = "flush" /\ r.dirty # << >>
    /\ LET c == Head(r.dirty)
           g == ListRemove(r, c)
       IN  /\ room \in Rooms(c)
           /\ r' = FlushOf(g, c, room, oom)
           /\ faults' = Faults(FlushOf(g, c, Smooth(c), FALSE))
    /\ turn' = ~turn
    /\ UNCHANGED <<phase, handled>>

\* The dead list, and back to epoll_wait.
EndTurn ==
    /\ phase = "flush" /\ r.dirty = << >>
    /\ LET freed[n \in 0..Len(r.dead)] ==
             IF n = 0 THEN r ELSE TryFree(freed[n-1], r.dead[n])
       IN  r' = freed[Len(r.dead)]
    /\ phase' = "events"
    /\ handled' = {}
    /\ turn' = FALSE
    /\ UNCHANGED faults

Init ==
    /\ r = [conn |-> [c \in Conns |-> NewConn], dirty |-> << >>, dead |-> << >>]
    /\ phase = "events"
    /\ handled = {}
    /\ turn = FALSE
    /\ faults = 0

Seqs == UNION {0..Len(Script[c]) : c \in Conns}

Flush == \E room \in Seqs, oom \in Memory : FlushOne(room, oom)

Poll(c) ==
    \E writable \in BOOLEAN, room \in Rooms(c), oom \in Memory :
        Event(c, writable, room, oom)

Client(c) ==
    \/ \E added \in BOOLEAN : Accept(c, added)
    \/ \E n \in 1..Unit : Send(c, n)
    \/ Close(c)
    \/ PeerReset(c)

Next ==
    \/ \E c \in Conns : Client(c)
    \/ \E c \in Conns : Poll(c)
    \/ \E c \in Conns, seq \in Seqs : Reply(c, seq)
    \/ StartFlush
    \/ Flush
    \/ EndTurn

Spec == Init /\ [][Next]_vars

Flushing == phase = "flush" /\ r.dirty # << >>
Pollable(c) == r.conn[c].fd /\ (r.conn[c].edge \/ r.conn[c].want_write)
AwaitsReply(c, seq) ==
    seq \in r.conn[c].out..r.conn[c].in-1 /\ SlotAt(r.conn[c], seq).state = "pending"

\* net_reactor_run goes on: it leaves epoll_wait, takes one turn of the
\* Master Flush after the other, and comes back once the dirty list is empty.
LoopRuns ==
    /\ []<>(phase = "flush")
    /\ []<>(Flushing => turn) /\ []<>(Flushing => ~turn)
    /\ []<>~(phase = "flush" /\ r.dirty = << >>)

\* A reactor that comes back to epoll_wait again and again learns of every
\* ready connection and of every reply, and the other shards do answer.
Served ==
    \/ <>[](phase = "flush")
    \/ /\ \A c \in Conns : []<>~Pollable(c)
       /\ \A c \in Conns, seq \in Seqs : []<>~AwaitsReply(c, seq)

\* Fairness is stated on states: turn tells one turn of the flush loop from
\* the next, also when it changes nothing else.
FairSpec == Spec /\ LoopRuns /\ Served

---------------------------------------------------------------------------
(* Properties *)

\* Every client gets the replies to its requests in the order it sent them,
\* none lost and none twice, however the replies of other shards arrive and
\* however often the pipeline is resized: what it has received and what is
\* still in the write buffer are the replies the pipeline has let go
\* (net_pipeline_try_flush, net_write_handler).
RepliesInOrder ==
    \A c \in Conns : LET k == r.conn[c] IN
        k.got \o Unsent(k) = [i \in 1..k.out |-> i]

\* The count of an input buffer is the connection's own reference plus one
\* for each slot whose request lies in it (net_rbuf_ref, net_rbuf_grow,
\* net_slot_reset): no request in flight loses its buffer, and none leaks.
BuffersHeld ==
    \A c \in Conns : LET k == r.conn[c] IN
        k.freed < 2 => \A b \in DOMAIN k.refs :
            k.refs[b] = Cardinality({q \in Used(k) : SlotAt(k, q).nb = b - 1})
                        + IF b = k.nb + 1 /\ k.freed = 0 THEN 1 ELSE 0

\* A connection that its client closed is released only when every request
\* that arrived whole has been answered (CONN_CLOSING: flushing
\* wbuf/pipeline).
GracefulClose ==
    \A c \in Conns : LET k == r.conn[c] IN
        k.freed > 0 /\ k.state = "closing" => Len(k.got) = k.sent \div Unit

\* When the reactor waits for events, a connection it would not visit by
\* itself has no reply ready and nothing left to write: no mark on the dirty
\* list was missed.
NothingForgotten ==
    phase = "events" /\ handled = {} =>
        \A c \in Conns : LET k == r.conn[c] IN
            k.fd /\ c \notin Range(r.dirty) =>
                FlushEnd(k) = k.out /\ Unsent(k) = << >> /\ ~Complete(k)

\* The Master Flush ends, unless a connection with a reply outstanding also
\* holds the first part of a request: handle_read_resp then marks it dirty
\* again and again.
FlushEnds ==
    phase = "flush" ~>
        \/ phase = "events"
        \/ \E c \in Conns : Torn(r.conn[c]) /\ ~Drained(r.conn[c])

\* Every request that arrived whole is answered, unless the connection died,
\* or the Master Flush does not end.
Answered ==
    \A c \in Conns : \A n \in 1..Len(Script[c]) :
        r.conn[c].sent >= Unit * n ~>
            \/ Len(r.conn[c].got) >= n
            \/ r.conn[c].state = "dead"
            \/ \E d \in Conns : Torn(r.conn[d]) /\ ~Drained(r.conn[d])

\* No connection is given back to its slab twice (net_conn_try_free), except
\* one whose client closed while replies were still to be written: the Master
\* Flush looks at it once more after net_write_handler has freed it.
FreedOnce ==
    \A c \in Conns : LET k == r.conn[c] IN
        k.freed > 1 => k.state = "closing" /\ k.got # << >>

\* The bytes of a request stay as they are until it is answered: its slot
\* holds a reference to the input buffer (req_nb) for as long.
ArgsIntact == \A c \in Conns : r.conn[c].over = {}
=============================================================================
