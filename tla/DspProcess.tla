----------------------------- MODULE DspProcess -----------------------------
(***************************************************************************)
(* process_block (k3-code/src/dsp_engine.cpp): the first channel of a block *)
(* becomes an envelope and a spectrum.  The buffers and the window are kept *)
(* from block to block and follow the size of the block.                    *)
(*                                                                          *)
(* The transform is computed over the integers modulo 17, where 2 is a root *)
(* of unity of order 8, in place of the complex numbers: whatever follows   *)
(* from the laws of a ring with such roots holds in both.  Scaling, the     *)
(* magnitude in decibels and rounding are left out.                         *)
(***************************************************************************)
EXTENDS Integers, Sequences, SequencesExt, FiniteSetsExt

CONSTANT UiPoints   (* kUiPoints *)

ASSUME DspAssumption == UiPoints \in Nat \ {0}

Q == 17
Abs(v)  == IF v < 0 THEN -v ELSE v
Zero(n) == [i \in 1 .. n |-> 0]

(* Bound: the blocks, some too short, some with a rest of a frame. *)
Block(channels, n) ==
    [channels |-> channels, samples |-> [i \in 1 .. n |-> ((i * i + 5 * n + 3 * channels) % Q) - 8]]
Blocks == {Block(1, 1), Block(0, 4), Block(1, 7), Block(2, 17)}

-----------------------------------------------------------------------------
(* std::cos, external: some function of the size and the position, 0 at 0 *)
Hann(size, i) == (i * (size + 5 + i)) % Q

Root[len \in Nat] == IF len = 8 THEN 2 ELSE (Root[2 * len] * Root[2 * len]) % Q

Power[b \in Nat, e \in Nat] == IF e = 0 THEN 1 ELSE (b * Power[b, e - 1]) % Q

FloorPow2(n) ==
    LET grow[p \in Nat] == IF 2 * p <= n THEN grow[2 * p] ELSE p IN grow[1]

-----------------------------------------------------------------------------
NoWorkspace == [mono |-> <<>>, fft |-> <<>>, window |-> <<>>, windowSize |-> 0]

WindowOf(size) == [i \in 1 .. size |-> Hann(size, i - 1)]

(* Mutation: the window is computed only once. *)
EnsureWorkspaceOnce(ws, n) ==
    LET size == FloorPow2(n) IN
    [mono   |-> IF Len(ws.mono) # n THEN Zero(n) ELSE ws.mono,
     fft    |-> IF Len(ws.fft) # size THEN Zero(size) ELSE ws.fft,
     window |-> IF ws.windowSize = 0 THEN WindowOf(size)
                ELSE [i \in 1 .. size |-> IF i <= Len(ws.window) THEN ws.window[i] ELSE 0],
     windowSize |-> size]

EnsureWorkspace(ws, n) ==
    LET size == FloorPow2(n) IN
    [mono   |-> IF Len(ws.mono) # n THEN Zero(n) ELSE ws.mono,
     fft    |-> IF Len(ws.fft) # size THEN Zero(size) ELSE ws.fft,
     window |-> IF ws.windowSize # size THEN WindowOf(size) ELSE ws.window,
     windowSize |-> size]

(* the counter of the reordering: add 1 from the highest bit down *)
NextReversed(j, size) ==
    LET carry[k \in Nat, bit \in Nat] ==
            IF (k \div bit) % 2 = 1 THEN carry[k - bit, bit \div 2] ELSE k + bit
    IN  carry[j, size \div 2]

Swap(buf, i, j) == [buf EXCEPT ![i + 1] = buf[j + 1], ![j + 1] = buf[i + 1]]

BitReversed(buf) ==
    LET size == Len(buf)
        Turn(acc, i) == LET j == NextReversed(acc.j, size) IN
                        [j |-> j, buf |-> IF i < j THEN Swap(acc.buf, i, j) ELSE acc.buf]
    IN  FoldLeft(Turn, [j |-> 0, buf |-> buf], [i \in 1 .. size - 1 |-> i]).buf

(* the butterflies of one length, k counting from 0 in each group of len *)
Butterflies(buf, len) ==
    LET half == len \div 2
        Of(p, k) == LET r == k % half
                        u == buf[p - k + r]
                        v == buf[p - k + r + half] * Power[Root[len], r]
                    IN  (IF k < half THEN u + v ELSE u - v) % Q
    IN  [p \in DOMAIN buf |-> Of(p, (p - 1) % len)]

(* compute_fft_db: the transform in place in fft_buffer_, half of it kept *)
Transformed(size, mono, window) ==
    LET loaded == [i \in 1 .. size |-> (mono[i] * window[i]) % Q]
        stage[len \in Nat] == IF len = 1 THEN BitReversed(loaded)
                              ELSE Butterflies(stage[len \div 2], len)
    IN  stage[size]

EnvelopeOf(samples) ==
    LET n    == Len(samples)
        step == Max({1, n \div UiPoints})
    IN  [e \in 1 .. (n + step - 1) \div step |->
            Max({Abs(samples[i]) : i \in (e - 1) * step + 1 .. Min({n, e * step})})]

(* process_block: the workspace it leaves and the frame it returns *)
ProcessBlock(ws, block) ==
    LET channels == Max({1, block.channels})
        n        == Len(block.samples) \div channels
        sized    == EnsureWorkspace(ws, n)
        filled   == [sized EXCEPT !.mono = [i \in 1 .. n |-> block.samples[(i - 1) * channels + 1]]]
        fft      == Transformed(Len(filled.fft), filled.mono, filled.window)
    IN  IF n < 2 THEN [ws |-> ws, spectrum |-> <<>>, envelope |-> <<>>]
        ELSE [ws       |-> [filled EXCEPT !.fft = fft],
              spectrum |-> SubSeq(fft, 1, Len(fft) \div 2),
              envelope |-> EnvelopeOf(filled.mono)]

-----------------------------------------------------------------------------
(* What the frame means: the transform by its definition of the longest    *)
(* windowed prefix of the first channel whose length is a power of two,    *)
(* and no peak of the channel missing from the envelope.                   *)
SumQ(f) == FoldFunction(LAMBDA a, b : (a + b) % Q, 0, f)

FrameIsOf(spectrum, envelope, block) ==
    LET channels == IF block.channels = 0 THEN 1 ELSE block.channels
        n     == Len(block.samples) \div channels
        x(i)  == block.samples[i * channels + 1]
        sizes == {s \in {2, 4, 8} : s <= n}
        size  == Max(sizes)
    IN  IF n < 2 THEN spectrum = <<>> /\ envelope = <<>>
        ELSE /\ spectrum = [k \in 1 .. size \div 2 |->
                   SumQ([i \in 0 .. size - 1 |->
                          x(i) * Hann(size, i) * Power[Root[size], (i * (k - 1)) % size]])]
             /\ Max({envelope[e] : e \in DOMAIN envelope}) = Max({Abs(x(i)) : i \in 0 .. n - 1})
             /\ Len(envelope) \in Min({n, UiPoints}) .. 2 * UiPoints - 1

(* The first block that goes through new buffers gives the right frame. *)
Fresh(b) == ProcessBlock(NoWorkspace, b)
FreshIsRight == \A b \in Blocks : FrameIsOf(Fresh(b).spectrum, Fresh(b).envelope, b)
=============================================================================
