----------------------------- MODULE MCScanJob -----------------------------
EXTENDS ScanJob
CONSTANTS t1, t2, t3

TwoTickers == <<t1, t2>>
ThreeTickers == <<t1, t2, t3>>
OneShortlist == {<<t2, t1>>}
\* Two rankings of the same tickers.
TwoShortlists == {<<t1, t2>>, <<t2, t1>>}
\* A shortlist that leaves a ticker out, and an empty one.
AnyShortlist == {<<t3, t1>>, <<>>}
=============================================================================
