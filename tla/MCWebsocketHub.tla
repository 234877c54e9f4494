---------------------------- MODULE MCWebsocketHub ----------------------------
(***************************************************************************)
(* A small instance of WebsocketHub for TLC: two connections, two topics,  *)
(* channels of capacity one.                                               *)
(***************************************************************************)
EXTENDS WebsocketHub, TLC

CONSTANTS c1, c2
===============================================================================
