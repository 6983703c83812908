----------------------------- MODULE MCBrowserApp -----------------------------
(***************************************************************************)
(* An instance of BrowserApp for TLC: two tabs, one polling page.  Tabs    *)
(* are interchangeable while idle: the second begins only when the first   *)
(* is busy, which loses nothing.                                           *)
(***************************************************************************)
EXTENDS BrowserApp

CONSTANTS t1, t2, p1

InTurn == tab[t2].step = "idle" /\ tab'[t2].step # "idle" => tab[t1].step # "idle"

SmallSpec == Init /\ [][Next /\ InTurn]_vars /\ Fairness
===============================================================================
