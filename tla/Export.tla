------------------------------- MODULE Export -------------------------------
(***************************************************************************)
(* The CSV download of the container list: a goroutine writes the records  *)
(* through a buffered csv.Writer into an io.Pipe, the handler copies the   *)
(* other end of the pipe to the client.                                    *)
(*                                                                         *)
(* Text is counted in pieces.  A record has two rows, one for each engine, *)
(* for each term it has engines for; a row is RowPieces pieces, so that a  *)
(* full buffer may cut it.  Record 0 is the header, one row.               *)
(***************************************************************************)
EXTENDS Integers, SequencesExt

CONSTANTS
    Records,     \* the records of the page are 1 .. Records
    MaxTerms,    \* terms a record may have engines for
    Broken,      \* a record whose recommendations did not decode
    RowPieces,   \* pieces in a row
    BufferSize,  \* pieces the csv.Writer holds
    CSVStreamInterval

ASSUME ExportAssumption ==
    /\ Records \in Nat /\ MaxTerms \in 0 .. 3 /\ Broken \notin Int
    /\ RowPieces \in Nat \ {0} /\ BufferSize \in Nat \ {0}
    /\ CSVStreamInterval \in Nat \ {0}

VARIABLES
    terms,   \* terms of each record
    rec,     \* the record the generator is in
    piece,   \* pieces of it written so far
    gen,     \* run, flush, last, closed or error
    buf,     \* the buffer of the csv.Writer
    pipe,    \* the chunk being handed over
    copy,    \* run, ended or aborted
    gone,    \* the client has gone away
    body     \* what was sent to the client

vars == <<terms, rec, piece, gen, buf, pipe, copy, gone, body>>

(* GenerateCSVRows: the pieces of record i.                                *)
Pieces(i) ==
    IF i = 0 THEN RowPieces
    ELSE IF terms[i] = Broken THEN 0
    ELSE 2 * terms[i] * RowPieces

GenerateCSVRows(i) == [n \in 1 .. Pieces(i) |-> <<i, n>>]

Init ==
    /\ terms \in [1 .. Records -> 0 .. MaxTerms \cup {Broken}]
    /\ rec = 0 /\ piece = 0 /\ gen = "run"
    /\ buf = <<>> /\ pipe = <<>>
    /\ copy = "run" /\ gone = FALSE /\ body = <<>>

WritePiece_unbounded ==
    /\ gen = "run" /\ pipe = <<>>
    /\ piece < Pieces(rec)
    /\ buf' = Append(buf, <<rec, piece + 1>>)
    /\ piece' = piece + 1
    /\ UNCHANGED <<terms, rec, gen, pipe, copy, gone, body>>

(* csv.Writer.Write: a full buffer is handed to the pipe first.  Writing   *)
(* to the pipe blocks until the reader has taken the chunk.                *)
WritePiece ==
    /\ gen = "run" /\ pipe = <<>>
    /\ piece < Pieces(rec)
    /\ IF Len(buf) < BufferSize
       THEN /\ buf' = Append(buf, <<rec, piece + 1>>)
            /\ piece' = piece + 1
            /\ UNCHANGED pipe
       ELSE pipe' = buf /\ buf' = <<>> /\ UNCHANGED piece
    /\ UNCHANGED <<terms, rec, gen, copy, gone, body>>

(* GenerateAndStreamCSV flushes every CSVStreamInterval records.           *)
FlushDue_never(i) == FALSE

FlushDue(i) == i # 0 /\ i % CSVStreamInterval = 0

(* GenerateAndStreamCSV: the end of a record, and what comes after it:     *)
(* a flush, the last flush, the next record, or the error of a broken one. *)
Advance ==
    /\ rec' = rec + 1 /\ piece' = 0
    /\ gen' = IF rec < Records /\ terms[rec + 1] = Broken
              THEN "error" ELSE IF rec = Records THEN "last" ELSE "run"

EndRecord ==
    /\ gen = "run" /\ pipe = <<>>
    /\ piece = Pieces(rec)
    /\ IF FlushDue(rec)
       THEN gen' = "flush" /\ UNCHANGED <<rec, piece>>
       ELSE Advance
    /\ UNCHANGED <<terms, buf, pipe, copy, gone, body>>

Flush_keep ==
    /\ gen \in {"flush", "last"} /\ pipe = <<>> /\ buf # <<>>
    /\ pipe' = buf
    /\ UNCHANGED <<terms, rec, piece, gen, buf, copy, gone, body>>

(* csv.Writer.Flush hands the buffer over.                                 *)
Flush ==
    /\ gen \in {"flush", "last"} /\ pipe = <<>> /\ buf # <<>>
    /\ pipe' = buf /\ buf' = <<>>
    /\ UNCHANGED <<terms, rec, piece, gen, copy, gone, body>>

Flushed ==
    /\ gen = "flush" /\ pipe = <<>> /\ buf = <<>>
    /\ Advance
    /\ UNCHANGED <<terms, buf, pipe, copy, gone, body>>

(* The deferred function closes the pipe, with the error if there is one:  *)
(* what an error leaves in the buffer is lost.                             *)
ClosePipe_early ==
    /\ gen = "last" /\ pipe = <<>>
    /\ gen' = "closed"
    /\ UNCHANGED <<terms, rec, piece, buf, pipe, copy, gone, body>>

ClosePipe ==
    /\ gen = "last" /\ pipe = <<>> /\ buf = <<>>
    /\ gen' = "closed"
    /\ UNCHANGED <<terms, rec, piece, buf, pipe, copy, gone, body>>

(* Context.Stream copies a chunk from the pipe to the client.              *)
CopyChunk ==
    /\ copy = "run" /\ pipe # <<>>
    /\ body' = body \o pipe /\ pipe' = <<>>
    /\ UNCHANGED <<terms, rec, piece, gen, buf, copy, gone>>

EndCopy_noerr ==
    /\ copy = "run" /\ pipe = <<>> /\ gen = "closed"
    /\ copy' = "ended"
    /\ UNCHANGED <<terms, rec, piece, gen, buf, pipe, gone, body>>

EndCopy_early ==
    /\ copy = "run" /\ pipe = <<>>
    /\ copy' = "ended"
    /\ UNCHANGED <<terms, rec, piece, gen, buf, pipe, gone, body>>

(* The pipe is closed, with or without an error: the handler returns.  The *)
(* status of the answer was sent long before.                              *)
EndCopy ==
    /\ copy = "run" /\ pipe = <<>> /\ gen \in {"closed", "error"}
    /\ copy' = "ended"
    /\ UNCHANGED <<terms, rec, piece, gen, buf, pipe, gone, body>>

GoAway ==
    /\ ~gone /\ copy = "run"
    /\ gone' = TRUE
    /\ UNCHANGED <<terms, rec, piece, gen, buf, pipe, copy, body>>

(* A write to a client that has gone fails, now or later: the handler      *)
(* returns and leaves its end of the pipe open.  The chunk it took is      *)
(* consumed.                                                               *)
AbortCopy ==
    /\ gone /\ copy = "run" /\ pipe # <<>>
    /\ copy' = "aborted" /\ pipe' = <<>>
    /\ UNCHANGED <<terms, rec, piece, gen, buf, gone, body>>

Generate == WritePiece \/ EndRecord \/ Flush \/ Flushed \/ ClosePipe
CopyOut == CopyChunk \/ EndCopy \/ AbortCopy

Next == Generate \/ CopyOut \/ GoAway

(* The goroutine and the handler are scheduled, and a client that is there *)
(* reads.  Nobody makes a client go.                                       *)
Spec == Init /\ [][Next]_vars /\ WF_vars(Generate) /\ WF_vars(CopyOut)

-----------------------------------------------------------------------------
(* The types of the state; the csv.Writer never holds more than its buffer *)
(* and hands over no larger chunk.                                         *)
TypeOK ==
    /\ terms \in [1 .. Records -> 0 .. MaxTerms \cup {Broken}]
    /\ rec \in 0 .. Records + 1
    /\ piece \in 0 .. (IF rec \in 0 .. Records THEN Pieces(rec) ELSE 0)
    /\ gen \in {"run", "flush", "last", "closed", "error"}
    /\ Len(buf) <= BufferSize /\ Len(pipe) <= BufferSize
    /\ copy \in {"run", "ended", "aborted"} /\ gone \in BOOLEAN

(* The whole file, were no record broken.                                  *)
File == FlattenSeq([i \in 1 .. Records + 1 |-> GenerateCSVRows(i - 1)])

(* The client gets the beginning of the file: no piece is lost, repeated   *)
(* or overtaken between the buffer, the pipe and the answer.  It is the    *)
(* whole file when the download ends with the client still there, unless a *)
(* record was broken; the client sees the same end of the answer in both   *)
(* cases, since the error is only logged.                                  *)
BodyIsFile ==
    /\ IsPrefix(body, File)
    /\ copy = "ended" /\ gen = "closed" => body = File

(* When a broken record ends the download, fewer than CSVStreamInterval    *)
(* of the records before it are missing or cut, and the header only if it  *)
(* is among the first CSVStreamInterval records itself.                    *)
LossBounded ==
    copy = "ended" /\ gen = "error" /\ rec > CSVStreamInterval =>
        \A i \in 0 .. rec - CSVStreamInterval :
            \A n \in 1 .. Pieces(i) : <<i, n>> \in ToSet(body)

(* GetRecommendationSetList returns: neither a broken record nor a client  *)
(* that goes away leaves it reading the pipe.  Its goroutine returns too,  *)
(* if the client waits for the end; if the client goes it may stay         *)
(* blocked, because nobody closes the reading end of the pipe.             *)
BothReturn ==
    /\ <>(copy # "run")
    /\ <>(gen \in {"closed", "error"} \/ gone)
=============================================================================
