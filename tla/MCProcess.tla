----------------------------- MODULE MCProcess -----------------------------
(* Four packets, a buffer of two, codecs that hold up to two packets.        *)
EXTENDS Process

Commands == {<<"--in", "a", "--out", "b">>, <<"--in", "a", "--out">>,
             <<"--in", "--out", "b">>}
=============================================================================
