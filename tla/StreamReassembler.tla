------------------------- MODULE StreamReassembler --------------------------
(***************************************************************************)
(* class StreamReassembler (libsponge/stream_reassembler.{hh,cc}):         *)
(* substrings of a logical stream arrive in any order, possibly            *)
(* overlapping; what has become contiguous is written to the output        *)
(* ByteStream and the rest waits in _wait_map.                             *)
(*                                                                         *)
(* _wait_map is a function from the index of a substring's first byte to   *)
(* the substring; std::map iterates it in key order.  size_t arithmetic    *)
(* wraps at SIZE_MOD: any modulus far above the indices in use gives the   *)
(* same comparisons as 2^64.                                               *)
(***************************************************************************)
EXTENDS Integers, Sequences, FiniteSetsExt, Binding

Output == INSTANCE ByteStream

SIZE_MOD == 2^30

SIZE_MAX == SIZE_MOD - 1

size_t(x) == x % SIZE_MOD

NewStreamReassembler(cap) ==
    [output     |-> Output!NewByteStream(cap),
     wait_map   |-> [k \in {} |-> << >>],
     capacity   |-> cap,
     wait_index |-> 0,
     eof_index  |-> SIZE_MAX]

\* The result of a loop over the entries of a std::map with keys S: below[k] is
\* what the entries below k have made of base.
InKeyOrder(step(_, _), base, S) ==
    LET last == IF S = {} THEN 0 ELSE Max(S) + 1
        below[k \in 0 .. last] ==
            IF k = 0 THEN base
            ELSE IF k - 1 \in S
            THEN With(below[k - 1], LAMBDA acc : step(acc, k - 1))
            ELSE below[k - 1]
    IN  below[last]

unassembled_bytes(r) ==
    InKeyOrder(LAMBDA n, k : n + Len(r.wait_map[k]), 0, DOMAIN r.wait_map)

empty(r) == DOMAIN r.wait_map = {}

erase(m, K) == [k \in DOMAIN m \ K |-> m[k]]

\* std::map::insert leaves an entry that is already there.
insert(m, index, data) ==
    IF index \in DOMAIN m
    THEN m
    ELSE [k \in DOMAIN m \union {index} |-> IF k = index THEN data ELSE m[k]]

\* data without its first n bytes.
Suffix(data, n) == SubSeq(data, n + 1, Len(data))

\* Plausible bug: what is already stored is not taken from the room.
truncate_data_roomy(r, data, index) ==
    SubSeq(data, 1, Output!MinOf(Len(data),
                             size_t(r.capacity + r.output.bytes_read - index)))

truncate_data(r, data, index) ==
    LET beyond == size_t(r.capacity + r.output.bytes_read - index)
        room   == size_t(r.capacity - Output!buffer_size(r.output) - unassembled_bytes(r))
    IN  SubSeq(data, 1, Output!MinOf(Output!MinOf(Len(data), beyond), room))

\* Plausible bug: overlaps are not looked for.
checked_insert_unchecked(r, data, index) ==
    [r EXCEPT !.wait_map = insert(@, index, truncate_data(r, data, index))]

\* How the entry e of m lies to the new substring, which occupies ins_start to
\* ins_end.
elem_end(m, e) == e + Len(m[e]) - 1

overlapping(m, ins_start, ins_end) ==
    {e \in DOMAIN m : ins_start <= elem_end(m, e) /\ e <= ins_end}

covered(m, ins_start, ins_end, e) == ins_start <= e /\ ins_end >= elem_end(m, e)

covers(m, ins_start, ins_end, e) ==
    ~covered(m, ins_start, ins_end, e) /\ e <= ins_start /\ elem_end(m, e) >= ins_end

\* What an overlapping entry e makes of the substring that is to be inserted.
merge(m, ins_start, ins_end, ins, e) ==
    IF covered(m, ins_start, ins_end, e) THEN ins
    ELSE IF covers(m, ins_start, ins_end, e) THEN [ins EXCEPT !.data = << >>]
    ELSE IF ins_start <= e
    THEN [ins EXCEPT !.data = @ \o Suffix(m[e], ins_end + 1 - e)]
    ELSE [index |-> e, data |-> SubSeq(m[e], 1, ins_start - e) \o ins.data]

\* ins_start and ins_end are not updated while the loop merges.
merged(m, data, index) ==
    LET ins_end == index + Len(data) - 1
    IN  InKeyOrder(LAMBDA ins, e : merge(m, index, ins_end, ins, e),
                   [index |-> index, data |-> data], overlapping(m, index, ins_end))

\* An entry that the new substring overlaps is erased when it is covered or
\* merged.  One that covers the new substring stays, and the new substring is
\* dropped.
checked_insert(r, data, index) ==
    LET ins_end == index + Len(data) - 1
        gone == {e \in overlapping(r.wait_map, index, ins_end) :
                   ~covers(r.wait_map, index, ins_end, e)}
        store(ins) ==
            LET kept == [r EXCEPT !.wait_map = erase(@, gone)]
            IN  IF ins.data = << >>
                THEN kept
                ELSE [kept EXCEPT !.wait_map =
                        insert(@, ins.index, truncate_data(kept, ins.data, ins.index))]
    IN  With(merged(r.wait_map, data, index), store)

\* The entry e, below the waiting index, is erased; what it holds at and above
\* it is inserted again under the waiting index.
refit(r, e) ==
    LET data   == r.wait_map[e]
        erased == [r EXCEPT !.wait_map = erase(@, {e})]
    IN  IF e + Len(data) > r.wait_index
        THEN checked_insert(erased, Suffix(data, r.wait_index - e), r.wait_index)
        ELSE erased

update_waitmap(r) ==
    InKeyOrder(refit, r, {e \in DOMAIN r.wait_map : e < r.wait_index})

\* Plausible bug: the waiting index does not move.
write_output_stays(r, data) == [r EXCEPT !.output = Output!write(@, data)]

\* _output.write(data) and the advance of the waiting index that follows it.
write_output(r, data) ==
    [r EXCEPT !.output     = Output!write(@, data),
              !.wait_index = @ + Output!write_size(r.output, data)]

\* The entry at the waiting index is written and erased.
take(r) ==
    IF r.wait_index \in DOMAIN r.wait_map
    THEN [write_output(r, r.wait_map[r.wait_index]) EXCEPT
            !.wait_map = erase(@, {r.wait_index})]
    ELSE r

\* One turn of the "reassemble as much data as possible" loop.
assemble(r) == With(update_waitmap(r), take)

\* Plausible bug: what waits is never looked at again.
assemble_all_forgets(r) == r

\* Every turn that does not end the loop erases an entry, so one turn more
\* than there are entries reaches the end; further turns change nothing.
assemble_all(r) ==
    LET last == Cardinality(DOMAIN r.wait_map) + 1
        turns[k \in 0 .. last] == IF k = 0 THEN r ELSE With(turns[k - 1], assemble)
    IN  turns[last]

end_output(r) == [r EXCEPT !.output = Output!end_input(@)]

\* The part that is new is stored, or written when it starts at the waiting
\* index.
push_data(r, write_data, index, moved_index) ==
    IF moved_index > r.wait_index
    THEN checked_insert(r, write_data, index)
    ELSE assemble_all(write_output(r, truncate_data(r, write_data, index)))

\* What is not new changes nothing but the end.
push_noted(r, data, index) ==
    LET start_pos == IF index < r.wait_index THEN r.wait_index - index ELSE 0
        close(s) == IF empty(s) /\ s.wait_index = s.eof_index THEN end_output(s) ELSE s
    IN  IF start_pos >= Len(data)
        THEN IF empty(r) /\ r.wait_index >= r.eof_index THEN end_output(r) ELSE r
        ELSE With(push_data(r, Suffix(data, start_pos), index, index + start_pos), close)

push_substring(r, data, index, eof) ==
    push_noted(IF eof THEN [r EXCEPT !.eof_index = index + Len(data)] ELSE r, data, index)
=============================================================================
