------------------------------ MODULE Pipeline ------------------------------
(***************************************************************************)
(* One connection (net/conn.h, the loops of net/reactor.c and of           *)
(* handle_read_resp in protocol/resp_handler.h), as operators on its       *)
(* state: input buffers that live until the requests in them are answered, *)
(* the ring of requests in flight, the write buffer.                       *)
(*                                                                         *)
(* A request is two units of the byte stream, so that it may arrive in two *)
(* pieces, and its reply is one unit.  A request is known by its number on *)
(* its connection; its kind says what resp_dispatch_proxy makes of it:     *)
(* answered at once ("local"), sent to another shard or deferred behind a  *)
(* lock ("remote"), or not RESP ("bad").                                   *)
(***************************************************************************)
EXTENDS Integers, Sequences, FiniteSets

CONSTANTS
    InitPipe,   \* PIPELINE_INIT_CAP
    InitBuf     \* units in the first input buffer

ASSUME PipelineAssumption ==
    /\ InitPipe \in Nat \ {0} /\ \E i \in 0..8 : InitPipe = 2^i
    /\ InitBuf \in Nat \ {0, 1}

Unit == 2   \* units of a request
Kinds == {"local", "remote", "bad"}
NoSlot == [state |-> "empty", req |-> 0, nb |-> 0, at |-> 0]

\* net_conn_alloc and net_pipeline_init.  sock, eof, rst, edge and got are
\* the socket's and the client's side: units sent and not read, end of input,
\* reset, an event not yet reported, replies received.  freed and over are
\* history: how often it was freed, requests overwritten while in flight.
NewConn ==
    [state |-> "none", fd |-> FALSE, sock |-> 0, eof |-> FALSE, rst |-> FALSE,
     edge |-> FALSE, want_write |-> FALSE, sent |-> 0, got |-> << >>,
     nb |-> 0, refs |-> <<1>>, cap |-> InitBuf, len |-> 0, parsed |-> 0,
     wbuf |-> << >>, wbuf_sent |-> 0,
     size |-> InitPipe, slots |-> [i \in 0..InitPipe-1 |-> NoSlot],
     in |-> 0, out |-> 0, freed |-> 0, over |-> {}]

Index(c, seq) == seq % c.size
SlotAt(c, seq) == c.slots[Index(c, seq)]
Used(c) == c.out..c.in-1
Drained(c) == c.in = c.out
Full(c) == c.in - c.out = c.size
Unsent(c) == SubSeq(c.wbuf, c.wbuf_sent + 1, Len(c.wbuf))
Torn(c) == c.parsed < c.len
Complete(c) == c.len - c.parsed >= Unit

\* net_reactor_mark_dead, for the connection itself.
Dead(c) == [c EXCEPT !.fd = FALSE, !.state = "dead"]

---------------------------------------------------------------------------
(* The pipeline *)

\* net_pipeline_resize: the slots in use, at their place in a ring of twice
\* the size.
Resized(c) ==
    LET of(i) == {seq \in Used(c) : seq % (2 * c.size) = i}
    IN  [c EXCEPT !.size = 2 * @,
                  !.slots = [i \in 0..2*c.size-1 |->
                      IF of(i) = {} THEN NoSlot
                      ELSE SlotAt(c, CHOOSE seq \in of(i) : TRUE)]]

\* Where net_pipeline_try_flush stops: at the first slot that has no reply
\* yet.
\* Mutant of Replied: PSLOT_LOCAL is not taken for a reply.
RepliedRemote(c, seq) == SlotAt(c, seq).state = "done"

Replied(c, seq) == SlotAt(c, seq).state \in {"local", "done"}

FlushEnd(c) ==
    CHOOSE q \in c.out..c.in :
        /\ \A p \in c.out..q-1 : Replied(c, p)
        /\ q = c.in \/ ~Replied(c, q)

\* net_rbuf_try_free of the req_nb of slots.
Released(c, seqs) ==
    [b \in DOMAIN c.refs |->
        c.refs[b] - Cardinality({q \in seqs : SlotAt(c, q).nb = b - 1})]

\* net_slot_write_to_wbuf, for the slots up to end.
Replies(c, end) == [i \in 1..end-c.out |-> SlotAt(c, c.out + i - 1).req]

\* net_slot_reset, for the slots themselves.
Cleared(c, seqs) ==
    [i \in DOMAIN c.slots |-> IF \E q \in seqs : Index(c, q) = i THEN NoSlot ELSE c.slots[i]]

\* net_pipeline_try_flush up to end: the replies are written to the write
\* buffer, and the slots give up their input buffers and are empty.
FlushedTo(c, end) ==
    [c EXCEPT !.wbuf = @ \o Replies(c, end),
              !.refs = Released(c, c.out..end-1),
              !.slots = Cleared(c, c.out..end-1),
              !.out = end]

Flushed(c) == FlushedTo(c, FlushEnd(c))

---------------------------------------------------------------------------
(* Reading *)

\* Mutant of Grown: the old buffer is given up with its requests.
GrownFreeing(c) ==
    [c EXCEPT !.refs = Append([c.refs EXCEPT ![c.nb + 1] = 0], 1), !.nb = @ + 1,
              !.cap = 2 * @, !.len = @ - c.parsed, !.parsed = 0]

\* net_rbuf_grow: another buffer with the bytes not yet parsed; the old one
\* lives until the requests in it are answered.
Grown(c) ==
    [c EXCEPT !.refs = Append([c.refs EXCEPT ![c.nb + 1] = @ - 1], 1), !.nb = @ + 1,
              !.cap = 2 * @, !.len = @ - c.parsed, !.parsed = 0]

\* One unit from the socket, in a buffer with room for it.  It may lie over
\* a request that is still in flight.
ReadUnit(c) ==
    [c EXCEPT !.sock = @ - 1, !.len = @ + 1,
              !.over = @ \cup {SlotAt(c, q).req : q \in
                  {q \in Used(c) : /\ SlotAt(c, q).state = "pending"
                                   /\ SlotAt(c, q).nb = c.nb
                                   /\ c.len \in SlotAt(c, q).at..SlotAt(c, q).at+Unit-1}}]

WithRoom(c) == IF c.len = c.cap THEN Grown(c) ELSE c

\* The read loop up to EAGAIN: room is made before every read, the one that
\* finds nothing included.
ReadAll(c) ==
    LET read[n \in 0..c.sock] ==
          IF n = 0 THEN c ELSE ReadUnit(WithRoom(read[n-1]))
    IN  WithRoom(read[c.sock])

NeedsRoom(c) == c.len + c.sock >= c.cap

\* resp_parser_reset after a request: an empty buffer is used from its start.
Reset(c) == IF c.parsed = c.len THEN [c EXCEPT !.parsed = 0, !.len = 0] ELSE c

\* net_pipeline_enqueue and resp_dispatch_proxy for the next request, which
\* starts at c.parsed.  Requests are parsed in the order they were sent, so it
\* is number in + 1.
Enqueued(c, kind) ==
    Reset([c EXCEPT
        !.slots[c.in % c.size] =
            [state |-> IF kind = "local" THEN "local" ELSE "pending",
             req |-> c.in + 1, nb |-> c.nb, at |-> c.parsed],
        !.refs[c.nb + 1] = @ + 1,
        !.in = @ + 1,
        !.parsed = @ + Unit])

\* One turn of the parse loop.
ParseOne(c, script, oom) ==
    CASE ~Complete(c) \/ c.state = "dead" -> c
      [] Complete(c) /\ c.state # "dead"
           /\ (script[c.in + 1] = "bad" \/ (Full(c) /\ oom)) -> Dead(c)
      [] OTHER -> Enqueued(IF Full(c) THEN Resized(c) ELSE c, script[c.in + 1])

\* A loop with more turns than there are requests.
ParseAll(c, script, oom) ==
    LET after[n \in 0..Len(script)] ==
          IF n = 0 THEN c ELSE ParseOne(after[n-1], script, oom)
    IN  after[Len(script)]

---------------------------------------------------------------------------
(* Writing *)

\* The pipeline is asked for more whenever the write buffer has been sent.
Refill(c) ==
    IF Unsent(c) # << >> THEN c
    ELSE Flushed([c EXCEPT !.wbuf = << >>, !.wbuf_sent = 0])

\* Mutant of Sent: wbuf_sent is not advanced.
SentAgain(c) ==
    IF Unsent(c) = << >> THEN c ELSE [c EXCEPT !.got = Append(@, c.wbuf[c.wbuf_sent + 1])]

Sent(c) ==
    IF Unsent(c) = << >> THEN c
    ELSE [c EXCEPT !.got = Append(@, c.wbuf[c.wbuf_sent + 1]), !.wbuf_sent = @ + 1]

\* The write loop, when the socket takes room units before EAGAIN.
WriteAll(c, room) ==
    LET wrote[n \in 0..room] == IF n = 0 THEN c ELSE Sent(Refill(wrote[n-1]))
    IN  Refill(wrote[room])
=============================================================================
