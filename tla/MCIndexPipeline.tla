----------------------------- MODULE MCIndexPipeline -----------------------------
EXTENDS IndexPipeline

MCFiles == 1 .. 2
MCPieces == 1 .. 2
\* File 1 ends inside the piece where file 2 begins.
MCSpan == <<{1, 2}, {2}>>
OneChunk == {<<"x">>}
TwoChunks == {<<"x", "x", "x", "n", "n", "x">>}
ShortTexts == UNION {[1 .. n -> {"x", "n"}] : n \in 0 .. 11}

Play(infos, flips, fails, toggles, removes, restarts, texts, onDisk) ==
    [infos |-> infos, flips |-> flips, fails |-> fails, toggles |-> toggles, removes |-> removes,
     restarts |-> restarts, texts |-> texts, onDisk |-> onDisk]
MCPlays == {Play(0, 0, 0, 0, 0, 0, ShortTexts, {}),
            Play(1, 3, 0, 0, 0, 0, OneChunk, {1}), Play(1, 0, 1, 2, 0, 0, TwoChunks, {1, 2}),
            Play(1, 0, 0, 0, 1, 0, OneChunk, {2}), Play(1, 1, 0, 1, 0, 1, OneChunk, {1})}
=============================================================================
