----------------------------- MODULE MCFeeCache -----------------------------
EXTENDS FeeCache

\* A market of the US, two that share the location Asia, and Malaysia, which has
\* no location.
MCMarkets == {<<"U", "S">>, <<"A", "T">>, <<"K", "R">>, <<"M", "J">>}
=============================================================================
