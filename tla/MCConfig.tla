------------------------------ MODULE MCConfig ------------------------------
(* Config with integers of four bits, and numbers of six. *)
EXTENDS Config

CONSTANTS url1, url2

TwoUrls == {url1, url2}
Numbers == {-9, -8, -7, -1, 0, 1, 2, 7, 8, 9, 15, 16, 17, 18, 31}
=============================================================================
