----------------------------- MODULE AliasRestore -----------------------------
(***************************************************************************)
(* aliasRestoreReader of infrastructure/upstream/opencode_tools.go: the    *)
(* body of a streamed answer, with the aliases of the caller's tools       *)
(* replaced by their names.  A byte is a number: 1, 2, .. are the bytes of *)
(* the quoted alias, -1, -2, .. those of the quoted name, 0 is any other.  *)
(***************************************************************************)
EXTENDS Integers, SequencesExt

CONSTANTS
    AliasLen,   \* bytes of the quoted alias
    NameLen,    \* bytes of the quoted name it stands for
    Slack,      \* what is held back beyond the alias: 8 in the code
    Room,       \* len(p): what the caller of Read takes
    MaxPieces   \* bound on the bytes and aliases of a stream

VARIABLES
    stream,     \* the body as the upstream sends it
    read,       \* how much of it was read
    pending, done,
    out,        \* what the reader's caller got
    ended       \* "", "eof" or "error", as the caller sees it

vars == <<stream, read, pending, done, out, ended>>

Alias == [i \in 1 .. AliasLen |-> i]
Name == [i \in 1 .. NameLen |-> -i]
Other == <<0>>

(* wrapAliasRestoreStream *)
Overlap == AliasLen + Slack

Init ==
    /\ stream \in {FlattenSeq(s) : s \in BoundedSeq({Alias, Other}, MaxPieces)}
    /\ read = 0
    /\ pending = <<>>
    /\ done = FALSE
    /\ out = <<>>
    /\ ended = ""

(* restoreChunk: the whole aliases of a chunk. *)
RestoreChunk(chunk) ==
    LET starts == {i \in 1 .. Len(chunk) - AliasLen + 1 : SubSeq(chunk, i, i + AliasLen - 1) = Alias}
        at(i) == IF i \in starts THEN Name
                 ELSE IF \E j \in starts : i \in j .. j + AliasLen - 1 THEN <<>>
                 ELSE <<chunk[i]>>
    IN FlattenSeq([i \in DOMAIN chunk |-> at(i)])

Take(s) == SubSeq(s, 1, IF Len(s) < Room THEN Len(s) ELSE Room)
Rest(s) == SubSeq(s, Room + 1, Len(s))

(* Read, when the body has n more bytes.  With no more than Overlap in     *)
(* hand it reads again.                                                    *)
Read(n) ==
    LET data == pending \o SubSeq(stream, read + 1, read + n)
        cut == Len(data) - Overlap
        restored == RestoreChunk(SubSeq(data, 1, cut))
    IN /\ ended = "" /\ ~done
       /\ read' = read + n
       /\ IF cut <= 0 THEN pending' = data /\ UNCHANGED out
          ELSE /\ out' = out \o Take(restored)
               /\ pending' = Rest(restored) \o SubSeq(data, cut + 1, Len(data))
       /\ UNCHANGED <<stream, done, ended>>

(* Read at the end of the body: what is left is flushed. *)
ReadEOF ==
    LET restored == RestoreChunk(pending)
    IN /\ ended = "" /\ read = Len(stream)
       /\ done' = TRUE
       /\ out' = out \o Take(restored)
       /\ pending' = Rest(restored)
       /\ ended' = IF pending = <<>> THEN "eof" ELSE ""
       /\ UNCHANGED <<stream, read>>

(* Read when the connection breaks with n more bytes.  The error is given  *)
(* to the caller only if there is nothing else to give.                    *)
ReadError(n) ==
    LET data == pending \o SubSeq(stream, read + 1, read + n)
    IN /\ ended = "" /\ ~done
       /\ read' = read + n
       /\ IF data = <<>> THEN ended' = "error" /\ UNCHANGED <<pending, done, out>>
          ELSE /\ done' = TRUE
               /\ out' = out \o Take(RestoreChunk(data))
               /\ pending' = <<>>
               /\ ended' = "eof"
       /\ UNCHANGED stream

Next ==
    \/ \E n \in 1 .. Len(stream) - read : Read(n)
    \/ \E n \in 0 .. Len(stream) - read - 1 : ReadError(n)
    \/ ReadEOF

Spec == Init /\ [][Next]_vars

-----------------------------------------------------------------------------
(* A caller that was told the stream ended got all of it, with every alias *)
(* replaced, however the bytes came.                                       *)
AliasesRestored == (ended = "eof" /\ read = Len(stream)) => out = RestoreChunk(stream)
=============================================================================
