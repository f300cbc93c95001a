------------------------------- MODULE Parser -------------------------------
(***************************************************************************)
(* NetParser, NetUnparser (util/parser.{hh,cc}) and InternetChecksum       *)
(* (util/util.cc).                                                         *)
(*                                                                         *)
(* A buffer is a sequence of bytes.  A 32-bit number is the pair of its    *)
(* halves, an array of bytes the sequence of them.  A header is read and   *)
(* written by the table of its fields, <<name, width in bytes>>, in wire   *)
(* order.                                                                  *)
(***************************************************************************)
EXTENDS Integers, Sequences, Binding

NewNetParser(bytes) == [buffer |-> bytes, error |-> "NoError"]

\* _check_size(): the error, once set, stays.
check_size(p, n) == IF n > Len(p.buffer) THEN [p EXCEPT !.error = "PacketTooShort"] ELSE p

Drop(bytes, n) == SubSeq(bytes, n + 1, Len(bytes))

\* NetParser::remove_prefix()
remove_prefix(p, n) ==
    With(check_size(p, n), LAMBDA c :
        IF c.error # "NoError" THEN c ELSE [c EXCEPT !.buffer = Drop(@, n)])

number(bytes) ==
    CASE Len(bytes) = 1 -> bytes[1]
      [] Len(bytes) = 2 -> 256 * bytes[1] + bytes[2]
      [] Len(bytes) = 4 -> <<256 * bytes[1] + bytes[2], 256 * bytes[3] + bytes[4]>>
      [] OTHER -> bytes

\* u8(), u16(), u32(), or a loop of u8() over an array: zero after an error.
parse_int(p, n) ==
    number(IF check_size(p, n).error # "NoError" THEN [i \in 1..n |-> 0] ELSE SubSeq(p.buffer, 1, n))

\* Reads the fields of table: the parser after them, and the values read.
parse_fields(p, table) ==
    LET upto[i \in 0..Len(table)] ==
            IF i = 0 THEN [p |-> p, values |-> << >>]
            ELSE With(upto[i - 1], LAMBDA r :
                     [p      |-> remove_prefix(r.p, table[i][2]),
                      values |-> Append(r.values, parse_int(r.p, table[i][2]))])
    IN  upto[Len(table)]

\* The values as a record.
named(values, table) ==
    [name \in {table[i][1] : i \in DOMAIN table} |->
        values[CHOOSE i \in DOMAIN table : table[i][1] = name]]

\* NetUnparser::u8(), u16(), u32(), or a loop of u8().
unparse_int(v, n) ==
    CASE n = 1 -> <<v>>
      [] n = 2 -> <<v \div 256, v % 256>>
      [] n = 4 -> <<v[1] \div 256, v[1] % 256, v[2] \div 256, v[2] % 256>>
      [] OTHER -> v

unparse_fields(h, table) ==
    LET upto[i \in 0..Len(table)] ==
            IF i = 0 THEN << >> ELSE upto[i - 1] \o unparse_int(h[table[i][1]], table[i][2])
    IN  upto[Len(table)]

\* Plausible bug: the header is not expanded to the size it advertises.
resize_never(bytes, n) == bytes

\* string::resize(n): zero bytes fill up.
resize(bytes, n) == [i \in 1..n |-> IF i <= Len(bytes) THEN bytes[i] ELSE 0]

NewInternetChecksum(initial_sum) == [sum |-> initial_sum, parity |-> FALSE]

\* InternetChecksum::add()
checksum_add(c, data) ==
    LET high(i) == (i % 2 = 1) # c.parity
        upto[i \in 0..Len(data)] ==
            IF i = 0 THEN c.sum ELSE upto[i - 1] + (IF high(i) THEN 256 * data[i] ELSE data[i])
    IN  [sum |-> upto[Len(data)], parity |-> c.parity # (Len(data) % 2 = 1)]

\* InternetChecksum::value()
checksum_value(c) ==
    LET fold[n \in Nat] == IF n > 65535 THEN fold[(n \div 65536) + (n % 65536)] ELSE n
    IN  65535 - fold[c.sum]
=============================================================================
