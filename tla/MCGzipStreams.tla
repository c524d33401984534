--------------------------- MODULE MCGzipStreams ----------------------------
(* The files from elsewhere are all of up to four tokens and every gzip     *)
(* member start of up to seven; of their data tokens "z" gives no           *)
(* character, "a" one and "b" three, one more than the buffers hold.  The   *)
(* application writes up to four characters.                                *)
EXTENDS GzipStreams, TLC

MCChars  == <<"p", "q", "r", "s">>
MCData   == {"z", "a", "b"} \cup Range(MCChars)
MCExpand == [c \in MCData |-> CASE c = "z" -> << >>
                                [] c = "b" -> <<"b", "b", "b">>
                                [] OTHER   -> <<c>>]
MCTokens == {"z", "a", "b", "1", "2", "T", "x"}
MCFiles  == SeqOf(MCTokens, 4)
              \cup {<<"1", "2">> \o f : f \in SeqOf(MCTokens, 5)}
=============================================================================
