---- MODULE MCSourceCache ----
EXTENDS SourceCache, TLC
CONSTANTS s1, s2
AllFamilies == Family
====
