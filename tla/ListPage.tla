------------------------------ MODULE ListPage ------------------------------
(***************************************************************************)
(* What the pages of the studio have in common that show a list, with a    *)
(* panel for the item selected: JobsPage and LibraryPages.                  *)
(***************************************************************************)
EXTENDS Naturals

CONSTANTS
  NoData,    \* see QueryCache
  MaxActs,   \* bound on the changes the user makes
  MaxFaults, \* bound on requests that fail or whose answer is lost
  MaxVisits  \* bound on how often the page is entered

VARIABLES
  list,      \* the query of the page's list, in the cache that outlives the page
  here,      \* the page is on the screen
  selected,  \* the item its panel is for
  open,      \* whether the panel is open
  owed,      \* history: what the list has yet to show
  spent      \* how much of each bound is used

Q == INSTANCE QueryCache

(* A failed list replaces the page, panel and all, by an error. *)
Mounted == here /\ ~list.failed

Spend(bound, max) == spent[bound] < max /\ spent' = [spent EXCEPT ![bound] = @ + 1]
Act   == Spend("acts", MaxActs)
Fault == Spend("faults", MaxFaults)
=============================================================================
