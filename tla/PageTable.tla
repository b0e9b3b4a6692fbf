----------------------------- MODULE PageTable -----------------------------
(***************************************************************************)
(* src/memory.rs, the native ContextMemoryManager: one page table for each *)
(* agent, behind one mutex, so that every method is one step.  When the    *)
(* active pages exceed the limit, the oldest are paged out until the rest  *)
(* fit 70% of it; a page that is paged out keeps a stub, and its content   *)
(* goes to pending_evictions, where take_evicted_pages collects it.        *)
(***************************************************************************)
EXTENDS Naturals, Sequences, SequencesExt, FiniteSets, FiniteSetsExt, Lists

CONSTANTS
  PageAgents,
  MaxActive,        \* max_active_tokens of a registration
  DefaultActive,    \* the one of an agent that appends unregistered
  PageSizes, Contents,
  MaxPages, MaxEvictions

Stub == 0

ASSUME PageAssumption ==
  /\ {MaxActive, DefaultActive} \subseteq Nat \ {0}
  /\ PageSizes \subseteq Nat \ {0} /\ Contents \subseteq Nat \ {Stub}
  /\ MaxPages \in Nat /\ MaxEvictions \in Nat

VARIABLES
  limit,       \* max_active_tokens of each agent; 0 if it has no table
  active,      \* current_active_tokens
  pages,       \* the pages, oldest first
  pending,     \* pending_evictions
  \* History variables: nothing below is read but by a bound.
  handed,      \* the evicted pages that take_evicted_pages returned
  written      \* the content last given to each page

pagevars == <<limit, active, pages, pending, handed, written>>

PageInit ==
  /\ limit = [a \in PageAgents |-> 0]
  /\ active = [a \in PageAgents |-> 0]
  /\ pages = [a \in PageAgents |-> <<>>]
  /\ pending = [a \in PageAgents |-> <<>>]
  /\ handed = [a \in PageAgents |-> <<>>]
  /\ written = [a \in PageAgents |-> <<>>]

\* The table of agent a becomes a new one, or none.
Reset(a, max) ==
  /\ limit' = [limit EXCEPT ![a] = max]
  /\ active' = [active EXCEPT ![a] = 0]
  /\ pages' = [pages EXCEPT ![a] = <<>>]
  /\ pending' = [pending EXCEPT ![a] = <<>>]
  /\ handed' = [handed EXCEPT ![a] = <<>>]
  /\ written' = [written EXCEPT ![a] = <<>>]

register_agent(a) == Reset(a, MaxActive)
unregister_agent(a) == limit[a] # 0 /\ Reset(a, 0)

SizeOf(ps, S) == SumFunction([i \in S |-> ps[i].tokens])
Active(ps) == {i \in DOMAIN ps : ~ ps[i].out}

\* The pages execute_page_out takes: in order, as long as those before them
\* were not enough to come down to the target.
Victims(ps, act, max) ==
  {i \in Active(ps) :
     act > (max * 7) \div 10 + SizeOf(ps, {j \in Active(ps) : j < i})}

\* Mutant: the content is replaced by the stub before the page is copied.
EvictedStubs(ps, S) ==
  LET copies == [i \in DOMAIN ps |-> [page |-> i, content |-> Stub]]
  IN Those(copies, {copies[i] : i \in S})

\* The pages in S as they were, in order.
Evicted(ps, S) ==
  LET copies == [i \in DOMAIN ps |-> [page |-> i, content |-> ps[i].content]]
  IN Those(copies, {copies[i] : i \in S})

\* The page table after a page came, or came back, with act tokens active.
Settle(a, ps, act, max) ==
  LET out == IF act > max THEN Victims(ps, act, max) ELSE {}
  IN /\ pages' = [pages EXCEPT ![a] =
          [i \in DOMAIN ps |-> IF i \in out
                               THEN [ps[i] EXCEPT !.out = TRUE, !.content = Stub]
                               ELSE ps[i]]]
     /\ active' = [active EXCEPT ![a] = act - SizeOf(ps, out)]
     /\ pending' = [pending EXCEPT ![a] = @ \o Evicted(ps, out)]
     /\ Len(pending'[a]) + Len(handed[a]) <= MaxEvictions

append_context_frame(a, tokens, content) ==
  /\ Len(pages[a]) < MaxPages
  /\ limit' = [limit EXCEPT ![a] = IF @ = 0 THEN DefaultActive ELSE @]
  /\ Settle(a, Append(pages[a], [tokens |-> tokens, out |-> FALSE,
                                 content |-> content]),
            active[a] + tokens, limit'[a])
  /\ written' = [written EXCEPT ![a] = Append(@, content)]
  /\ UNCHANGED handed

\* Mutant: the tokens of a page that was never out are added again.
page_in_frameTwice(a, i, content) ==
  /\ i \in DOMAIN pages[a]
  /\ Settle(a, [pages[a] EXCEPT ![i].out = FALSE, ![i].content = content],
            active[a] + pages[a][i].tokens, limit[a])
  /\ written' = [written EXCEPT ![a][i] = content]
  /\ UNCHANGED <<limit, handed>>

\* The page comes back, or gets new content if it was not out; it, or others,
\* may be paged out at once.
page_in_frame(a, i, content) ==
  /\ i \in DOMAIN pages[a]
  /\ Settle(a, [pages[a] EXCEPT ![i].out = FALSE, ![i].content = content],
            active[a] + (IF pages[a][i].out THEN pages[a][i].tokens ELSE 0),
            limit[a])
  /\ written' = [written EXCEPT ![a][i] = content]
  /\ UNCHANGED <<limit, handed>>

take_evicted_pages(a) ==
  /\ limit[a] # 0 /\ pending[a] # <<>>
  /\ pending' = [pending EXCEPT ![a] = <<>>]
  /\ handed' = [handed EXCEPT ![a] = @ \o pending[a]]
  /\ UNCHANGED <<limit, active, pages, written>>

PageNext ==
  \E a \in PageAgents :
    \/ register_agent(a) \/ unregister_agent(a) \/ take_evicted_pages(a)
    \/ \E c \in Contents :
         \/ \E t \in PageSizes : append_context_frame(a, t, c)
         \/ \E i \in DOMAIN pages[a] : page_in_frame(a, i, c)

-----------------------------------------------------------------------------
(* Properties *)

Page == [tokens : PageSizes, out : BOOLEAN, content : Contents \cup {Stub}]
Eviction == [page : 1 .. MaxPages, content : Contents \cup {Stub}]

PageTypeOK ==
  /\ limit \in [PageAgents -> {0, MaxActive, DefaultActive}]
  /\ active \in [PageAgents -> Nat]
  /\ pages \in [PageAgents -> Seq(Page)]
  /\ pending \in [PageAgents -> Seq(Eviction)]
  /\ handed \in [PageAgents -> Seq(Eviction)]
  /\ written \in [PageAgents -> Seq(Contents)]
  /\ \A a \in PageAgents :
       Len(pages[a]) <= MaxPages /\ Len(written[a]) = Len(pages[a])

\* current_active_tokens, which is kept incrementally through page-outs and
\* page-ins, is what the active pages add up to, never exceeds the limit, and
\* no active page shows a stub in its context.
PagesAccounted ==
  \A a \in PageAgents :
    /\ active[a] = SizeOf(pages[a], Active(pages[a]))
    /\ active[a] <= limit[a]
    /\ \A i \in Active(pages[a]) : pages[a][i].content # Stub

\* The content of a page that is out is not lost: among the evicted pages,
\* handed over or pending, the newest one for it has the content last given
\* to it, however often it came and went and whenever they were collected.
PagedOutRecoverable ==
  \A a \in PageAgents : \A i \in DOMAIN pages[a] \ Active(pages[a]) :
    LET evictions == handed[a] \o pending[a]
        mine == {k \in DOMAIN evictions : evictions[k].page = i}
    IN mine # {} /\ evictions[Max(mine)].content = written[a][i]
=============================================================================
