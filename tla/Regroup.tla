------------------------------ MODULE Regroup ------------------------------
(***************************************************************************)
(* How the iterators of a streamed response regroup what the network       *)
(* delivers: ByteChunker, TextChunker, TextDecoder and LineDecoder         *)
(* (crates/rqx-core/src/streaming/{chunking,decoding}.rs) in the loops of  *)
(* the iterators of crates/rqx/src/stream.rs.                              *)
(*                                                                         *)
(* The network cuts the body anywhere: inside a character, inside a CRLF,  *)
(* inside a piece.  What the caller gets must not depend on it.            *)
(***************************************************************************)
EXTENDS Naturals, SequencesExt

CONSTANTS Bytes,    \* the bytes a body is made of
          MaxLen,   \* bound: bytes in a body
          Sizes     \* chunk_size; 0 stands for None

\* "lead" "trail" is one character of two bytes.
ASSUME RegroupAssumption ==
    /\ Bytes \subseteq {"x", "CR", "LF", "VT", "lead", "trail"}
    /\ MaxLen \in Nat
    /\ Sizes \subseteq Nat

VARIABLES kind,      \* "bytes", "text" or "lines"
          size,      \* chunk_size
          body,      \* what the server sends
          pos,       \* how much of it has been delivered
          finished,  \* the iterator has seen the end
          stopped,   \* it has raised StopIteration
          carry, head,        \* ByteChunker
          half,               \* TextDecoder: a lead byte is held
          text, consumed,     \* TextChunker: pending and consumed
          buffer, trailingCr, \* LineDecoder
          pending,            \* lines not yet handed out
          out                 \* what the caller has got

byteVars == <<carry, head>>
textVars == <<text, consumed>>
lineVars == <<buffer, trailingCr, pending>>
vars == <<kind, size, body, pos, finished, stopped, byteVars, half, textVars, lineVars, out>>

Init ==
    /\ kind \in {"bytes", "text", "lines"}
    /\ size \in (IF kind = "lines" THEN {0} ELSE Sizes)
    /\ body \in BoundedSeq(Bytes, MaxLen)
    /\ pos = 0
    /\ finished = FALSE /\ stopped = FALSE
    /\ carry = <<>> /\ head = <<>>
    /\ half = FALSE
    /\ text = <<>> /\ consumed = 0
    /\ buffer = <<>> /\ trailingCr = FALSE /\ pending = <<>>
    /\ out = <<>>

Take(s, n) == SubSeq(s, 1, n)
Skip(s, n) == SubSeq(s, n + 1, Len(s))

-----------------------------------------------------------------------------
(* ByteChunker: operators on [carry, head]                                 *)

\* Mutant of ByteFeed: the whole chunk becomes the head.
ByteFeedWhole(c, bytes) == [carry |-> c.carry, head |-> bytes]

\* ByteChunker::feed: what completes a piece goes to the carry.
ByteFeed(c, bytes) ==
    LET need == size - Len(c.carry)
        take == IF size = 0 \/ c.carry = <<>> THEN 0
                ELSE IF need < Len(bytes) THEN need ELSE Len(bytes)
    IN  [carry |-> c.carry \o Take(bytes, take), head |-> Skip(bytes, take)]

\* ByteChunker::next_full; an empty piece stands for None.
ByteNextFull(c) ==
    CASE size = 0 ->
           [piece |-> c.head, carry |-> c.carry, head |-> <<>>]
      [] size > 0 /\ Len(c.carry) >= size ->
           [piece |-> Take(c.carry, size), carry |-> Skip(c.carry, size), head |-> c.head]
      [] size > 0 /\ Len(c.head) >= size /\ c.carry = <<>> ->
           [piece |-> Take(c.head, size), carry |-> <<>>, head |-> Skip(c.head, size)]
      [] OTHER ->
           [piece |-> <<>>, carry |-> c.carry \o c.head, head |-> <<>>]

-----------------------------------------------------------------------------
(* TextDecoder and TextChunker                                             *)

\* One byte of a UTF-8 decoder; "?" is U+FFFD, "e" the two-byte character.
DecodeByte(d, b) ==
    LET broken == IF d.half THEN Append(d.out, "?") ELSE d.out
    IN  CASE d.half /\ b = "trail" -> [out |-> Append(d.out, "e"), half |-> FALSE]
          [] b = "lead" -> [out |-> broken, half |-> TRUE]
          [] ~d.half /\ b = "trail" -> [out |-> Append(d.out, "?"), half |-> FALSE]
          [] OTHER -> [out |-> Append(broken, b), half |-> FALSE]

\* Mutant of Decode: every chunk is decoded as if it were the last.
DecodeEach(bytes, held, last) ==
    LET d == FoldLeft(DecodeByte, [out |-> <<>>, half |-> held], bytes)
    IN  [out |-> IF d.half THEN Append(d.out, "?") ELSE d.out, half |-> FALSE]

\* TextDecoder::decode: last flushes a character that is only half there.
Decode(bytes, held, last) ==
    LET d == FoldLeft(DecodeByte, [out |-> <<>>, half |-> held], bytes)
    IN  IF last /\ d.half THEN [out |-> Append(d.out, "?"), half |-> FALSE] ELSE d

\* Mutant of TextFeed: consumed is not reset.
TextFeedStale(decoded) ==
    /\ text' = Skip(text, consumed) \o decoded
    /\ UNCHANGED consumed

\* TextChunker::feed drops what has been handed out.
TextFeed(decoded) ==
    /\ text' = Skip(text, consumed) \o decoded
    /\ consumed' = 0

\* TextChunker::next_full: how many characters the next piece has, 0 for None.
TextFull ==
    LET unread == Len(text) - consumed
    IN  CASE size = 0 -> unread
          [] size > 0 /\ unread >= size -> size
          [] OTHER -> 0

-----------------------------------------------------------------------------
(* LineDecoder                                                             *)

IsLineBreak(c) == c \in {"CR", "LF", "VT"}

\* One character of split_lines; afterCr: the LF of a CRLF is to be skipped.
SplitChar(s, c) ==
    CASE s.afterCr /\ c = "LF" -> [s EXCEPT !.afterCr = FALSE]
      [] IsLineBreak(c) /\ ~(s.afterCr /\ c = "LF") ->
           [lines |-> Append(s.lines, s.current), current |-> <<>>, afterCr |-> (c = "CR")]
      [] OTHER -> [s EXCEPT !.current = Append(@, c), !.afterCr = FALSE]

\* LineDecoder::split_lines
SplitLines(chars) ==
    LET s == FoldLeft(SplitChar, [lines |-> <<>>, current |-> <<>>, afterCr |-> FALSE], chars)
    IN  IF s.current = <<>> THEN s.lines ELSE Append(s.lines, s.current)

\* Mutant of LineFeed: a CR at the end of a chunk is not deferred.
LineFeedAtOnce(d, chars) ==
    LET lines == SplitLines(chars)
    IN  CASE chars = <<>> -> [d EXCEPT !.lines = <<>>]
          [] chars # <<>> /\ Len(lines) = 1 /\ ~IsLineBreak(Last(chars)) ->
               [d EXCEPT !.buffer = @ \o lines[1], !.lines = <<>>]
          [] OTHER ->
               LET joined == <<d.buffer \o lines[1]>> \o Tail(lines)
               IN  IF IsLineBreak(Last(chars))
                   THEN [lines |-> joined, buffer |-> <<>>, cr |-> FALSE]
                   ELSE [lines |-> Front(joined), buffer |-> Last(joined), cr |-> FALSE]

\* LineDecoder::feed: a trailing CR waits for the next chunk; a single open
\* segment extends the partial line; else the partial line is completed, and
\* an open tail becomes the next one.
LineFeed(d, chars) ==
    LET whole == IF d.cr THEN <<"CR">> \o chars ELSE chars
        cr == whole # <<>> /\ Last(whole) = "CR"
        now == IF cr THEN Front(whole) ELSE whole
        lines == SplitLines(now)
    IN  CASE now = <<>> -> [lines |-> <<>>, buffer |-> d.buffer, cr |-> cr]
          [] now # <<>> /\ Len(lines) = 1 /\ ~IsLineBreak(Last(now)) ->
               [lines |-> <<>>, buffer |-> d.buffer \o lines[1], cr |-> cr]
          [] OTHER ->
               LET joined == <<d.buffer \o lines[1]>> \o Tail(lines)
               IN  IF IsLineBreak(Last(now))
                   THEN [lines |-> joined, buffer |-> <<>>, cr |-> cr]
                   ELSE [lines |-> Front(joined), buffer |-> Last(joined), cr |-> cr]

-----------------------------------------------------------------------------
(* The loops of the iterators                                              *)

\* The next chunk the network delivers; the empty one stands for the end.
Chunk(n) == SubSeq(body, pos + 1, pos + n)
Deliver(n) ==
    /\ ~finished
    /\ n \in (IF pos = Len(body) THEN {0} ELSE 1..(Len(body) - pos))
    /\ pos' = pos + n
    /\ finished' = (n = 0)
    /\ UNCHANGED stopped

Hand(piece) ==
    /\ out' = Append(out, piece)
    /\ UNCHANGED <<pos, finished, stopped>>

Stop ==
    /\ finished
    /\ stopped' = TRUE
    /\ UNCHANGED <<pos, finished, out>>

\* The byte iterator: a full piece, else a chunk, else the rest.
ByteStep ==
    /\ kind = "bytes"
    /\ LET r == ByteNextFull([carry |-> carry, head |-> head])
           rest == carry \o head
       IN  \/ /\ r.piece # <<>>
              /\ Hand(r.piece)
              /\ carry' = r.carry /\ head' = r.head
           \/ /\ r.piece = <<>>
              /\ \E n \in 0..MaxLen :
                    /\ Deliver(n)
                    /\ LET c == [carry |-> r.carry, head |-> r.head]
                           fed == IF n = 0 THEN c ELSE ByteFeed(c, Chunk(n))
                       IN  carry' = fed.carry /\ head' = fed.head
              /\ UNCHANGED out
           \/ /\ r.piece = <<>> /\ finished
              /\ rest # <<>>
              /\ Hand(rest)
              /\ carry' = <<>> /\ head' = <<>>
           \/ /\ r.piece = <<>> /\ rest = <<>>
              /\ Stop
              /\ UNCHANGED byteVars
    /\ UNCHANGED <<half, textVars, lineVars>>

\* The text iterator; the end flushes the decoder into the chunker.
TextStep ==
    /\ kind = "text"
    /\ LET rest == Skip(text, consumed)
       IN  \/ /\ TextFull > 0
              /\ Hand(Take(rest, TextFull))
              /\ consumed' = consumed + TextFull
              /\ UNCHANGED <<text, half>>
           \/ /\ TextFull = 0
              /\ \E n \in 0..MaxLen :
                    /\ Deliver(n)
                    /\ LET d == Decode(Chunk(n), half, n = 0)
                       IN  half' = d.half /\ TextFeed(d.out)
              /\ UNCHANGED out
           \/ /\ TextFull = 0 /\ finished
              /\ rest # <<>>
              /\ Hand(rest)
              /\ text' = <<>> /\ consumed' = 0
              /\ UNCHANGED half
           \/ /\ TextFull = 0 /\ rest = <<>>
              /\ Stop
              /\ UNCHANGED <<half, textVars>>
    /\ UNCHANGED <<byteVars, lineVars>>

\* The line iterator; the end flushes the decoder and then the line buffer.
LineStep ==
    /\ kind = "lines"
    /\ \/ /\ pending # <<>>
          /\ Hand(pending[1])
          /\ pending' = Tail(pending)
          /\ UNCHANGED <<half, buffer, trailingCr>>
       \/ /\ pending = <<>>
          /\ \E n \in 0..MaxLen :
                /\ Deliver(n)
                /\ LET d == Decode(Chunk(n), half, n = 0)
                       l == LineFeed([lines |-> <<>>, buffer |-> buffer, cr |-> trailingCr], d.out)
                       flush == n = 0 /\ (l.buffer # <<>> \/ l.cr)
                   IN  /\ half' = d.half
                       /\ pending' = l.lines \o (IF flush THEN <<l.buffer>> ELSE <<>>)
                       /\ buffer' = IF flush THEN <<>> ELSE l.buffer
                       /\ trailingCr' = (l.cr /\ n # 0)
          /\ UNCHANGED out
       \/ /\ pending = <<>>
          /\ Stop
          /\ UNCHANGED <<half, lineVars>>
    /\ UNCHANGED <<byteVars, textVars>>

Next ==
    /\ ~stopped
    /\ ByteStep \/ TextStep \/ LineStep
    /\ UNCHANGED <<kind, size, body>>

Spec == Init /\ [][Next]_vars

-----------------------------------------------------------------------------
(* Properties                                                              *)

\* The buffers have their types and stay small: the carry of the byte chunker
\* never outgrows one piece (size - carry.len() is unsigned), every byte that was
\* delivered is handed out or in exactly one buffer, and the text chunker has
\* never handed out more than it holds.
TypeOK ==
    /\ kind \in {"bytes", "text", "lines"}
    /\ pos \in 0..Len(body)
    /\ finished \in BOOLEAN /\ stopped \in BOOLEAN
    /\ half \in BOOLEAN /\ trailingCr \in BOOLEAN
    /\ consumed \in 0..Len(text)
    /\ kind = "bytes" =>
          /\ size > 0 => Len(carry) <= size
          /\ Len(carry) + Len(head) + Len(FlattenSeq(out)) = pos

Flat(pieces) == FlattenSeq(pieces)

\* The text of the whole body, decoded in one piece.
WholeText == Decode(body, FALSE, TRUE).out

\* The lines of the whole text as str.splitlines defines them: a line ends at
\* each break that is not the CR of a CRLF, and an unterminated tail is a line.
RefLines ==
    LET t == WholeText
        breaks == {i \in 1..Len(t) : IsLineBreak(t[i])}
        crlf(i) == i > 1 /\ t[i] = "LF" /\ t[i - 1] = "CR"
        ends == {i \in breaks : ~crlf(i)}
        starts == {1} \cup {i + 1 : i \in {j \in breaks : ~(j < Len(t) /\ crlf(j + 1))}}
        first == SetToSortSeq({i \in starts : i <= Len(t)}, <)
        stop(i) == CHOOSE e \in i..(Len(t) + 1) :
                      /\ e = Len(t) + 1 \/ e \in ends
                      /\ \A k \in i..(e - 1) : k \notin ends
    IN  [k \in DOMAIN first |-> SubSeq(t, first[k], stop(first[k]) - 1)]

\* stream.rs, iter_bytes and iter_text: "pieces of exactly chunk_size" units
\* "with the remainder last"; nothing is lost, added, reordered or empty.
PiecesAreExact ==
    kind \in {"bytes", "text"} =>
        /\ IsPrefix(Flat(out), IF kind = "bytes" THEN body ELSE WholeText)
        /\ stopped => Flat(out) = IF kind = "bytes" THEN body ELSE WholeText
        /\ \A i \in DOMAIN out : out[i] # <<>>
        /\ size > 0 => \A i \in DOMAIN out :
              Len(out[i]) = size \/ (i = Len(out) /\ finished /\ Len(out[i]) < size)

\* iter_lines yields the lines of the whole body, however it was cut up.
LinesMatchSplitlines ==
    kind = "lines" =>
        /\ IsPrefix(out, RefLines)
        /\ stopped => out = RefLines

=============================================================================
