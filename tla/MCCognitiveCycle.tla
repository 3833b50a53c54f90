--------------------------- MODULE MCCognitiveCycle ---------------------------
(* A small instance of CognitiveCycle.                                     *)
EXTENDS CognitiveCycle

CONSTANTS chat, plug
TwoPlugins == <<plug, chat>>
===============================================================================
