------------------------------ MODULE Playback ------------------------------
(***************************************************************************)
(* The offline bypass (k3-code/src/playback_bypass.cpp): main reads a WAV  *)
(* file, resamples it if its rate is not the device's, and writes it to an *)
(* ALSA device before it enters the event loop.                            *)
(*                                                                         *)
(* A file is a header and a sequence of chunks; a chunk says how large it  *)
(* is, and `there` is how many of these bytes the file holds: less for the *)
(* last chunk of a truncated file.  Of the samples only the number of      *)
(* frames is kept, and of the frames their positions.                      *)
(***************************************************************************)
EXTENDS Integers, Sequences, SequencesExt

VARIABLE
    play   (* the call of play_wav_file: where it is, what it read, what    *)
           (* the device was handed, whether it is open, what is returned   *)

PlaybackRate == 48
FmtBytes     == 16

(* Bound: the chunks and the files they make up. *)
Fmt(format, channels, rate, bits) ==
    [format |-> format, channels |-> channels, rate |-> rate, bits |-> bits]
Chunk(id, size, there, fmt) == [id |-> id, size |-> size, there |-> there, fmt |-> fmt]
NoFmt  == Fmt(0, 0, 0, 0)
Chunks ==
    {Chunk("fmt ", FmtBytes, FmtBytes, f) :
        f \in {Fmt(1, 2, 48, 16), Fmt(1, 1, 44, 24), Fmt(3, 1, 48, 32), Fmt(1, 0, 48, 16)}}
    \cup {Chunk("fmt ", FmtBytes, 10, Fmt(1, 2, 48, 16))}
    \cup {Chunk("data", n[1], n[2], NoFmt) : n \in {<<8, 8>>, <<11, 11>>, <<8, 4>>, <<2, 2>>, <<0, 0>>}}
    \cup {Chunk("LIST", 6, there, NoFmt) : there \in {2, 6}}
Complete(c) == c.there = c.size
Files ==
    {[riff |-> FALSE, chunks |-> <<>>]}
    \cup {[riff |-> TRUE, chunks |-> cs] :
             cs \in {s \in SeqOf(Chunks, 3) : \A i \in 1 .. Len(s) - 1 : Complete(s[i])}}

-----------------------------------------------------------------------------
(* read_wav *)

Unread == [ok |-> TRUE, fmt |-> NoFmt, bytes |-> 0]

(* one turn of the loop over the chunks; skipping past the end succeeds *)
ReadChunk(got, c) ==
    IF ~got.ok THEN got
    ELSE IF c.id = "fmt " THEN [got EXCEPT !.ok = c.there >= FmtBytes, !.fmt = c.fmt]
    ELSE IF c.id = "data" THEN [got EXCEPT !.ok = Complete(c), !.bytes = c.size]
    ELSE got

Unreadable == [ok |-> FALSE, frames |-> 0, rate |-> 0]

Decoded(fmt, bytes) ==
    LET samples == bytes \div (fmt.bits \div 8) IN
    IF /\ fmt.format = 1 /\ fmt.channels # 0 /\ fmt.rate # 0
       /\ fmt.bits \in {16, 24, 32} /\ bytes > 0 /\ samples > 0
    THEN [ok |-> TRUE, frames |-> samples \div fmt.channels, rate |-> fmt.rate]
    ELSE Unreadable

ReadWav(file) ==
    LET got == FoldLeft(ReadChunk, Unread, file.chunks) IN
    IF file.riff /\ got.ok THEN Decoded(got.fmt, got.bytes) ELSE Unreadable

(* What a WAV file says, wherever its chunks stand: its last fmt chunk     *)
(* tells how to read its last data chunk, and both are complete.           *)
Means(file) ==
    LET Is(id, c) == c.id = id
        fmts  == SelectSeq(file.chunks, LAMBDA c : Is("fmt ", c))
        datas == SelectSeq(file.chunks, LAMBDA c : Is("data", c))
    IN  IF /\ file.riff /\ fmts # <<>> /\ datas # <<>>
           /\ \A i \in 1 .. Len(file.chunks) :
                 file.chunks[i].id \in {"fmt ", "data"} => Complete(file.chunks[i])
        THEN Decoded(Last(fmts).fmt, Last(datas).size)
        ELSE Unreadable

(* A file that is accepted is read as what it means. *)
ReaderIsRight ==
    \A file \in Files :
        ReadWav(file).ok => ReadWav(file) = Means(file) /\ ReadWav(file).frames \in Nat

-----------------------------------------------------------------------------
(* play_wav_file, resample_to_target, play_with_alsa *)

Idle == [pc |-> "idle", total |-> 0, written |-> 0, heard |-> <<>>, open |-> FALSE,
         means |-> Unreadable, ok |-> FALSE]

PlayInit == play = Idle

Over == play.pc = "over"

Return(ok) == play' = [play EXCEPT !.pc = "over", !.open = FALSE, !.ok = ok]

(* How many frames src_simple (external) makes of n; it may fail or make none. *)
Resampled(wav) == IF wav.rate = PlaybackRate THEN {wav.frames} ELSE 0 .. wav.frames + 1

ReadFile(file) ==
    LET wav == ReadWav(file) IN
    /\ play.pc = "idle"
    /\ \/ /\ wav.ok
          /\ \E n \in Resampled(wav) :
                play' = [play EXCEPT !.pc = IF n = 0 /\ wav.rate # PlaybackRate THEN "over" ELSE "open",
                                     !.total = n, !.means = Means(file)]
       \/ ~wav.ok /\ play' = [play EXCEPT !.pc = "over", !.means = Means(file)]

OpenDevice ==
    /\ play.pc = "open"
    /\ Return(FALSE) \/ play' = [play EXCEPT !.pc = "params", !.open = TRUE]

SetParams ==
    /\ play.pc = "params"
    /\ Return(FALSE) \/ play' = [play EXCEPT !.pc = "write"]

(* snd_pcm_writei takes n of the frames that are left *)
WriteFrames ==
    /\ play.pc = "write"
    /\ \E n \in 1 .. play.total - play.written :
          play' = [play EXCEPT !.written = @ + n,
                               !.heard = @ \o [i \in 1 .. n |-> play.written + i]]

(* snd_pcm_writei reports an underrun, or takes nothing *)
WriteNothing ==
    /\ play.pc = "write" /\ play.written < play.total
    /\ UNCHANGED play \/ play' = [play EXCEPT !.pc = "recover"]

(* Mutation: the stream is written from its beginning again. *)
RecoverRestarts ==
    /\ play.pc = "recover"
    /\ Return(FALSE) \/ play' = [play EXCEPT !.pc = "write", !.written = 0]

(* snd_pcm_recover: the loop goes on where it was, or the device is given up *)
Recover ==
    /\ play.pc = "recover"
    /\ Return(FALSE) \/ play' = [play EXCEPT !.pc = "write"]

Drain ==
    /\ play.pc = "write" /\ play.written = play.total
    /\ \E ok \in BOOLEAN : Return(ok)

PlaySteps ==
    \/ \E file \in Files : ReadFile(file)
    \/ OpenDevice \/ SetParams \/ WriteNothing \/ Recover \/ Drain

-----------------------------------------------------------------------------
(* A file is played as it is written: what cannot be read is not played,   *)
(* every frame is handed to the device once and in order whatever          *)
(* underruns come between, success is reported only when all were, and the *)
(* device is closed on every way out.                                      *)
PlaysTheFile ==
    /\ play.heard = [i \in 1 .. Len(play.heard) |-> i]
    /\ play.pc \notin {"idle", "over"} =>
          /\ play.means.ok
          /\ play.means.rate = PlaybackRate => play.total = play.means.frames
    /\ Over => /\ ~play.open
               /\ play.ok => play.means.ok /\ Len(play.heard) = play.total
=============================================================================
