---------------------------- MODULE MCAggregateIndex ----------------------------
EXTENDS AggregateIndex

MCKeywords == {<<1>>, <<1, 1>>, <<1, 2>>, <<2>>}
Play(publishes, retracts, fails, expiries, lookups, names) ==
    [publishes |-> publishes, retracts |-> retracts, fails |-> fails, expiries |-> expiries,
     lookups |-> lookups, names |-> names]
One == {{<<1>>}}
MCPlays == {Play(2, 0, 0, 0, 0, SUBSET MCKeywords), Play(2, 2, 2, 1, 0, One),
            Play(2, 0, 0, 0, 2, One), Play(1, 1, 1, 0, 2, One), Play(2, 1, 1, 0, 1, One)}
=============================================================================
