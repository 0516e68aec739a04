------------------------------- MODULE Streams -------------------------------
(* vm/claw_vm: channels, the stream operators over them, and execute_closure,   *)
(* through which stream_map and stream_filter call the program back. The        *)
(* program is any sequence of operations; a closure does some of them, then     *)
(* returns or fails.                                                            *)
EXTENDS Integers, SequencesExt

CONSTANTS
    Chans,        \* the objects of channel_pool
    Capacities,   \* capacities a program asks for; 0 is unbounded
    Batch,        \* size of the batches of stream_buffer
    MaxFrames,    \* MAX_CALL_FRAMES
    MaxSends,     \* bound: values sent
    MaxStreams    \* bound: stream operators called

ASSUME StreamsAssumption ==
    Capacities \subseteq Nat /\ Batch \in Nat \ {0} /\ MaxFrames \in Nat \ {0}

VARIABLES
    chan,         \* channel -> its queue, capacity and closed
    live,         \* channels the program or a builtin refers to
    frames,       \* call_frames: base_stack and local_count
    stackTop,
    builtin,      \* the stream operators being executed, innermost last
    running,
    sends, streams,
    got,          \* history: channel -> what the program took from it
    mixed,        \* history: channels filled from several, by stream_merge
    failures,     \* history: closures that failed, or could not be called
    misdelivered  \* history: values of a stream operator the program never saw

streamVars == <<chan, live, frames, stackTop, builtin, running, sends, streams, got, mixed,
                failures, misdelivered>>

\* A value is the sequence of the numbers sent in it: one for a plain value,
\* several for a batch, none for nil.
Nil == <<>>

ANewChannel(cap) == [queue |-> <<>>, capacity |-> cap, closed |-> FALSE]

Main == [base |-> 0, locals |-> 1]

Frame == Last(frames)

\* The instructions of the program run, not those of a builtin.
InProgram == running /\ IF builtin = <<>> THEN TRUE ELSE Last(builtin).phase = "body"

\* The innermost frame is main's, or that of the closure the builtin called: no
\* closure that failed has left its frame above it.
AtHome == Len(frames) = (IF builtin = <<>> THEN 1 ELSE Last(builtin).saved + 1)

\* Channels the program can name: the output of an operator is its own until it returns.
Known == live \ {builtin[i].out : i \in DOMAIN builtin}

StreamsInit ==
    /\ chan = [c \in Chans |-> ANewChannel(0)]
    /\ live = {} /\ mixed = {}
    /\ frames = <<Main>> /\ stackTop = Main.base + Main.locals
    /\ builtin = <<>> /\ running = TRUE
    /\ sends = 0 /\ streams = 0 /\ failures = 0 /\ misdelivered = 0
    /\ got = [c \in Chans |-> <<>>]

control == <<frames, stackTop, builtin, running, streams, failures, misdelivered>>

\* The pool hands out an object nobody refers to, made anew.
Acquired(c, isMixed) ==
    /\ c \notin live
    /\ mixed' = IF isMixed THEN mixed \cup {c} ELSE mixed \ {c}
    /\ live' = live \cup {c}
    /\ got' = [got EXCEPT ![c] = <<>>]

---------------------------------------------------------------------------
Channel(c, cap) ==
    /\ InProgram /\ Acquired(c, FALSE)
    /\ chan' = [chan EXCEPT ![c] = ANewChannel(cap)]
    /\ UNCHANGED <<sends, control>>

\* The program drops its last reference: the object goes back to the pool.
DropChannel(c) ==
    /\ InProgram /\ c \in Known
    /\ \A i \in DOMAIN builtin : c /= builtin[i].from
    /\ live' = live \ {c}
    /\ UNCHANGED <<chan, sends, got, mixed, control>>

Enqueued(q, v) == Append(q, v)

Refuses(c) ==
    chan[c].closed \/ (chan[c].capacity > 0 /\ Len(chan[c].queue) >= chan[c].capacity)

\* ch_send and ch_try_send: a channel that is full or closed refuses the value;
\* nobody waits.
Send(c) ==
    /\ InProgram /\ c \in Known /\ sends < MaxSends
    /\ sends' = sends + 1
    /\ IF Refuses(c)
       THEN UNCHANGED chan
       ELSE chan' = [chan EXCEPT ![c].queue = Enqueued(@, <<sends + 1>>)]
    /\ UNCHANGED <<live, got, mixed, control>>

\* ch_recv, ch_try_recv and stream_next: nil from an empty queue, open or closed.
Recv(c) ==
    /\ InProgram /\ c \in Known
    /\ IF chan[c].queue = <<>>
       THEN UNCHANGED <<chan, got>>
       ELSE /\ chan' = [chan EXCEPT ![c].queue = Tail(@)]
            /\ got' = [got EXCEPT ![c] = Append(@, Head(chan[c].queue))]
    /\ UNCHANGED <<live, sends, mixed, control>>

CloseChannel(c) ==
    /\ InProgram /\ c \in Known
    /\ chan' = [chan EXCEPT ![c].closed = TRUE]
    /\ UNCHANGED <<live, sends, got, mixed, control>>

---------------------------------------------------------------------------
\* A stream operator takes everything that is in its input at that moment.
Emptied(c) == [chan[c] EXCEPT !.queue = <<>>]

\* stream_map and stream_filter begin: the two arguments are on the stack, under
\* everything the closures will push.
StreamBegin(kind, c, out) ==
    /\ InProgram /\ c \in Known /\ streams < MaxStreams
    /\ Acquired(out, c \in mixed)
    /\ streams' = streams + 1
    /\ chan' = [chan EXCEPT ![c] = Emptied(c), ![out] = ANewChannel(0)]
    /\ builtin' = Append(builtin, [kind |-> kind, from |-> c, out |-> out,
                                   todo |-> chan[c].queue, depth |-> Len(frames),
                                   saved |-> Len(frames), top |-> stackTop + 2, result |-> Nil,
                                   phase |-> "next"])
    /\ stackTop' = stackTop + 2
    /\ UNCHANGED <<frames, running, sends, failures, misdelivered>>

\* The last batch may be shorter.
Batches(q) ==
    [n \in 1..((Len(q) + Batch - 1) \div Batch) |->
        FlattenSeq(SubSeq(q, (n - 1) * Batch + 1,
                          IF n * Batch < Len(q) THEN n * Batch ELSE Len(q)))]

StreamBuffer(c, out) ==
    /\ InProgram /\ c \in Known /\ streams < MaxStreams
    /\ Acquired(out, c \in mixed)
    /\ streams' = streams + 1
    /\ chan' = [chan EXCEPT ![c] = Emptied(c),
                            ![out] = [ANewChannel(0) EXCEPT !.queue = Batches(chan[c].queue)]]
    /\ UNCHANGED <<frames, stackTop, builtin, running, sends, failures, misdelivered>>

\* Two inputs, which may be the same channel: it is empty the second time.
StreamMerge(c, d, out) ==
    /\ InProgram /\ {c, d} \subseteq Known /\ streams < MaxStreams
    /\ Acquired(out, TRUE)
    /\ streams' = streams + 1
    /\ LET second == IF d = c THEN <<>> ELSE chan[d].queue
       IN  chan' = [chan EXCEPT ![c] = Emptied(c), ![d] = Emptied(d),
                                ![out] = [ANewChannel(0) EXCEPT !.queue = chan[c].queue \o second]]
    /\ UNCHANGED <<frames, stackTop, builtin, running, sends, failures, misdelivered>>

---------------------------------------------------------------------------
B == Last(builtin)

Becomes(b) == builtin' = [builtin EXCEPT ![Len(builtin)] = b]

\* execute_closure: the argument and the closure are pushed, and the frame begins
\* at the argument. Past MAX_CALL_FRAMES it gives nil and leaves the VM stopped.
CallClosure ==
    /\ builtin /= <<>> /\ B.phase = "next" /\ B.todo /= <<>>
    /\ IF Len(frames) >= MaxFrames
       THEN /\ Becomes([B EXCEPT !.phase = "result", !.result = Nil])
            /\ running' = FALSE
            /\ failures' = failures + 1
            /\ UNCHANGED <<frames, stackTop>>
       ELSE /\ frames' = Append(frames, [base |-> stackTop, locals |-> 1])
            /\ stackTop' = stackTop + 1
            /\ Becomes([B EXCEPT !.phase = "body", !.saved = Len(frames)])
            /\ running' = TRUE
            /\ UNCHANGED failures
    /\ UNCHANGED <<chan, live, sends, streams, got, mixed, misdelivered>>

\* op_ret gives the caller back its locals and nothing above them, and pushes the
\* result there.
TopAfterReturn(fs) == Last(fs).base + Last(fs).locals + 1

\* Mutant: the result is taken whatever the height of the stack.
ResultAlways(b, top, v) == v

\* execute_closure takes the result only from above the frame's base.
ResultOf(b, top, v) == IF top > b THEN v ELSE Nil

\* A closure returns its argument, or nil.
ReturnToBuiltin(isNil) ==
    /\ InProgram /\ builtin /= <<>> /\ AtHome
    /\ frames' = Front(frames)
    /\ LET top == TopAfterReturn(Front(frames))
           v == IF isNil THEN Nil ELSE Head(B.todo)
       IN  /\ Becomes([B EXCEPT !.phase = "result", !.result = ResultOf(Frame.base, top, v)])
           /\ stackTop' = B.top
    /\ UNCHANGED <<chan, live, running, sends, streams, got, mixed, failures, misdelivered>>

\* An instruction of the closure fails. Its frame stays; the result is whatever is
\* on top of the stack, here its argument; and the VM is set running again.
FailInBuiltin ==
    /\ InProgram /\ builtin /= <<>>
    /\ Becomes([B EXCEPT !.phase = "result",
                         !.result = ResultOf(Frame.base, stackTop, Head(B.todo))])
    /\ stackTop' = B.top
    /\ failures' = failures + 1
    /\ UNCHANGED <<chan, live, frames, running, sends, streams, got, mixed, misdelivered>>

TakeResult ==
    /\ builtin /= <<>> /\ B.phase = "result"
    /\ Becomes([B EXCEPT !.phase = "next", !.todo = Tail(@)])
    /\ LET v == IF B.kind = "map" THEN B.result ELSE Head(B.todo)
       IN  IF B.kind = "map" \/ B.result /= Nil
           THEN chan' = [chan EXCEPT ![B.out].queue = Append(@, v)]
           ELSE UNCHANGED chan
    /\ UNCHANGED <<live, frames, stackTop, running, sends, streams, got, mixed, failures,
                   misdelivered>>

\* The builtin returns to op_call_ext, and the program goes on in the innermost
\* frame: the caller's, or that of a closure that failed.
StreamEnd ==
    /\ builtin /= <<>> /\ B.phase = "next" /\ B.todo = <<>>
    /\ builtin' = Front(builtin)
    /\ IF Len(frames) = B.depth
       THEN stackTop' = stackTop - 2 /\ UNCHANGED <<live, misdelivered>>
       ELSE /\ stackTop' = stackTop - 1
            /\ misdelivered' = misdelivered + 1
            /\ live' = live \ {B.out}
    /\ UNCHANGED <<chan, frames, running, sends, streams, got, mixed, failures>>

\* A closure that had failed runs on to its RET: its caller takes what it returns
\* for the value of the stream operator.
ReturnLate ==
    /\ InProgram /\ ~AtHome
    /\ Len(frames) > 1
    /\ frames' = Front(frames)
    /\ stackTop' = TopAfterReturn(Front(frames)) - 1
    /\ UNCHANGED <<chan, live, builtin, running, sends, streams, got, mixed, failures,
                   misdelivered>>

\* An instruction fails outside any builtin, or main returns.
StreamProgramEnds ==
    /\ InProgram /\ builtin = <<>>
    /\ running' = FALSE
    /\ UNCHANGED <<chan, live, frames, stackTop, builtin, sends, streams, got, mixed, failures,
                   misdelivered>>

StreamsNext ==
    \/ \E c \in Chans :
         \/ \E cap \in Capacities : Channel(c, cap)
         \/ DropChannel(c) \/ Send(c) \/ Recv(c) \/ CloseChannel(c)
         \/ \E out \in Chans :
              \/ \E kind \in {"map", "filter"} : StreamBegin(kind, c, out)
              \/ StreamBuffer(c, out)
              \/ \E d \in Chans : StreamMerge(c, d, out)
    \/ CallClosure \/ FailInBuiltin \/ TakeResult \/ StreamEnd \/ ReturnLate \/ StreamProgramEnds
    \/ \E isNil \in BOOLEAN : ReturnToBuiltin(isNil)

StreamsSpec == StreamsInit /\ [][StreamsNext]_streamVars

---------------------------------------------------------------------------
StreamsTypeOK ==
    /\ \A c \in Chans : chan[c].capacity > 0 => Len(chan[c].queue) <= chan[c].capacity
    /\ live \subseteq Chans
    /\ \A i \in DOMAIN frames : frames[i].base \in Nat
    /\ stackTop \in Nat /\ Len(frames) \in 1..MaxFrames
    /\ running \in BOOLEAN

\* The numbers in a sequence of values.
Numbers(s) == UNION {Range(s[i]) : i \in DOMAIN s}

\* No number is in it twice.
Distinct(s) ==
    \A i, j \in DOMAIN s : \A a \in DOMAIN s[i], b \in DOMAIN s[j] :
        s[i][a] = s[j][b] => i = j /\ a = b

\* The numbers are in the order they were sent.
Increasing(s) ==
    \A i, j \in DOMAIN s : \A a \in DOMAIN s[i], b \in DOMAIN s[j] :
        i < j \/ (i = j /\ a < b) => s[i][a] < s[j][b]

\* What was received from a channel, and what is in it.
Kept(c) == got[c] \o (IF c \in live THEN chan[c].queue ELSE <<>>)

Apart(s, t) == Numbers(s) \cap Numbers(t) = {}

\* Every number is in one place at most, of all that is in the channels or was
\* received from them, and of what stream operators still have to do: a value sent
\* is received at most once, however operators, closures and receives are mixed
\* (the snapshots of stream_map, stream_filter, stream_buffer and stream_merge).
AtMostOnce ==
    /\ \A c \in Chans : Distinct(Kept(c)) /\ \A d \in Chans \ {c} : Apart(Kept(c), Kept(d))
    /\ \A i \in DOMAIN builtin :
          /\ Distinct(builtin[i].todo)
          /\ \A c \in Chans : Apart(builtin[i].todo, Kept(c))
          /\ \A j \in DOMAIN builtin \ {i} : Apart(builtin[i].todo, builtin[j].todo)

\* What is in a channel, after what was received from it, is in the order it was
\* sent, but downstream of a stream_merge: the stream operators and ch_recv
\* keep the order.
Ordered == \A c \in live \ mixed : Increasing(Kept(c))

\* A program none of whose closures failed comes back from every stream operator
\* to the caller's frame, with the stack as high as it was; and what the closure
\* of a stream_map returned never reaches its output then: the frame's base is
\* above the height op_ret leaves, so execute_closure gives nil (only the frame
\* of a closure that failed lifts it).
ClosuresGiveNil ==
    failures = 0 =>
        /\ misdelivered = 0
        /\ builtin = <<>> => Len(frames) = 1 /\ stackTop = Main.locals
        /\ \A i \in DOMAIN builtin : builtin[i].phase = "result" => builtin[i].result = Nil

\* However sends, receives, operators and closures are mixed, the channels lose
\* neither their bounds nor a value's place or order, and closures leave the frames
\* and the stack as they found them.
StreamsSound == StreamsTypeOK /\ AtMostOnce /\ Ordered /\ ClosuresGiveNil

=============================================================================
