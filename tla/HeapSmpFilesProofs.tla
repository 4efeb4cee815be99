-------------------------- MODULE HeapSmpFilesProofs --------------------------
(***************************************************************************)
(* Theorems about three parts of the kernel that share nothing: its heap,  *)
(* for pages, tables and buffers of every size, the start of the other     *)
(* processors, for any number of them, and the files of the VFS, for any   *)
(* names, processes, descriptors and limits.                               *)
(*                                                                         *)
(* Heap.  Between two stores of kmalloc or kfree the table says nothing of *)
(* the run the desktop is about (Mine) and of the entry it works on        *)
(* (Working).  With these set apart the table lists the buffers at every   *)
(* step: a file call gives the entry and the pages it takes back at once.  *)
(*                                                                         *)
(* Processors.  The two words of the trampoline belong to one processor at *)
(* a time: the boot processor writes them only after every processor it    *)
(* woke before has come all the way (Done), because it gives up at the     *)
(* first that has not.  So a processor that is on its way is the last one  *)
(* woken, and the words are its own (Words).                               *)
(*                                                                         *)
(* Files.  A write looks its file up again, in the file system that the    *)
(* open found it in.  So long as what an open descriptor names is not      *)
(* removed, it is still there (HeldIn), and no write makes a second file.  *)
(***************************************************************************)
EXTENDS Heap, Smp, Files, FiniteSetTheorems, SequenceTheorems, WellFoundedInduction, TLAPS

Entry == [base : Int, pages : Nat, used : BOOLEAN]
Block == [base : Nat, pages : Nat \ {0}]
BlockOf(e) == [base |-> e.base, pages |-> e.pages]

MainOK ==
  \/ main = AtRest
  \/ main \in [pc : {"pages"}, entry : Index, pages : Nat \ {0}]
  \/ main \in [pc : {"fill"}, entry : Index, todo : SUBSET Fields, new : Entry]
  \/ main \in [pc : {"free"}, entry : Index, base : Nat, page : Nat]
  \/ main \in [pc : {"clear"}, entry : Index, todo : SUBSET Fields]

HeapTypeOK == table \in [Index -> Entry] /\ blocks \subseteq Block /\ MainOK

\* The entry the desktop works on, and the pages that are neither a buffer's nor free.
Working == IF main.pc \in {"fill", "free", "clear"} THEN {main.entry} ELSE {}

Mine ==
  IF main.pc = "fill" THEN Run(main.new.base, main.new.pages)
  ELSE IF main.pc = "free"
       THEN (main.base + main.page) .. (main.base + table[main.entry].pages - 1)
       ELSE {}

\* The pages u are taken by processes (h), buffers (B) or the call in progress (M).
PagesFit(u, h, B, M) ==
  /\ \A x : x \in u <=> x \in h \/ x \in M \/ \E b \in B : x \in Of(b)
  /\ h \cap M = {}
  /\ \A b \in B : Of(b) \cap h = {} /\ Of(b) \cap M = {}
  /\ \A b, c \in B : b # c => Of(b) \cap Of(c) = {}

\* The entries of t outside W list the buffers B, each once.
ListFits(t, W, B) ==
  /\ \A i \in Index \ W : t[i].used => BlockOf(t[i]) \in B
  /\ \A b \in B : \E i \in Index \ W : t[i].used /\ BlockOf(t[i]) = b
  /\ \A i, j \in Index \ W : t[i].used /\ t[j].used /\ t[i].base = t[j].base => i = j

\* What the entry the desktop works on has in it so far.
EntryFits ==
  /\ main.pc = "pages" => ~table[main.entry].used
  /\ main.pc = "fill" =>
       /\ main.new.used /\ main.new.base \in Nat /\ main.new.pages > 0
       /\ \A f \in Fields \ main.todo : table[main.entry][f] = main.new[f]
       /\ "used" \in main.todo => ~table[main.entry].used
  /\ main.pc = "clear" => \A f \in Fields \ main.todo : table[main.entry][f] = Unused[f]

HeapInv ==
  /\ HeapTypeOK
  /\ PagesFit(used, held, blocks, Mine)
  /\ ListFits(table, Working, blocks)
  /\ EntryFits

-----------------------------------------------------------------------------
(***************************************************************************)
(* Pages.                                                                  *)
(***************************************************************************)
LEMMA LeastIn == ASSUME NEW S \in SUBSET Nat, S # {} PROVE Least(S) \in S
<1>1. \E n \in S : \A m \in S : ~(<<m, n>> \in OpToRel(<, Nat))
  BY NatLessThanWellFounded, WFMin
<1>2. PICK n \in S : \A m \in S : ~(<<m, n>> \in OpToRel(<, Nat)) BY <1>1
<1>3. \A m \in S : m \in Nat /\ n \in Nat => ~(m < n) BY <1>2, Zenon DEF OpToRel
<1>4. \A m \in S : n <= m BY <1>3
<1> QED BY <1>4 DEF Least

LEMMA RunTaken ==
  ASSUME NEW u, NEW h, NEW B, PagesFit(u, h, B, {}), NEW R, R \cap u = {}
  PROVE  PagesFit(u \cup R, h, B, R)
BY DEF PagesFit

LEMMA RunBecomesBlock ==
  ASSUME NEW u, NEW h, NEW B, NEW c, PagesFit(u, h, B, Of(c))
  PROVE  PagesFit(u, h, B \cup {c}, {})
BY DEF PagesFit

LEMMA BlockBecomesRun ==
  ASSUME NEW u, NEW h, NEW B, NEW c \in B, PagesFit(u, h, B, {})
  PROVE  PagesFit(u, h, B \ {c}, Of(c))
BY DEF PagesFit

LEMMA PageFreed ==
  ASSUME NEW u, NEW h, NEW B, NEW M, NEW x \in M, PagesFit(u, h, B, M)
  PROVE  PagesFit(u \ {x}, h, B, M \ {x})
BY DEF PagesFit

LEMMA PageTaken ==
  ASSUME NEW u, NEW h, NEW B, NEW M, NEW x, x \notin u, PagesFit(u, h, B, M)
  PROVE  PagesFit(u \cup {x}, h \cup {x}, B, M)
BY DEF PagesFit

LEMMA PageGiven ==
  ASSUME NEW u, NEW h, NEW B, NEW M, NEW x \in h, PagesFit(u, h, B, M)
  PROVE  PagesFit(u \ {x}, h \ {x}, B, M)
BY DEF PagesFit

\* A buffer has the page it begins with.
LEMMA BaseInBlock == ASSUME NEW b \in Block PROVE b.base \in Of(b)
BY DEF Block, Of, Run

-----------------------------------------------------------------------------
(***************************************************************************)
(* The table.                                                              *)
(***************************************************************************)
\* What the working entry holds does not matter.
LEMMA WorkingFree ==
  ASSUME NEW t, NEW s, NEW W, NEW B, ListFits(t, W, B), \A i \in Index \ W : s[i] = t[i]
  PROVE  ListFits(s, W, B)
BY DEF ListFits

\* An unused entry may be worked on or not.
LEMMA UnusedApart ==
  ASSUME NEW t, NEW e \in Index, ~t[e].used, NEW B
  PROVE  ListFits(t, {}, B) <=> ListFits(t, {e}, B)
BY DEF ListFits

\* An unused entry may be replaced by an unused one.
LEMMA UnusedReplaced ==
  ASSUME NEW t, NEW s, NEW W, NEW B, ListFits(t, W, B), NEW e \in Index,
         ~t[e].used, ~s[e].used, \A i \in Index \ {e} : s[i] = t[i]
  PROVE  ListFits(s, W, B)
BY DEF ListFits

\* An entry is set: its buffer joins the others.
LEMMA EntrySet ==
  ASSUME NEW t, NEW e \in Index, NEW B, ListFits(t, {e}, B), t[e].used,
         \A b \in B : b.base # t[e].base
  PROVE  ListFits(t, {}, B \cup {BlockOf(t[e])})
<1>1. \A b \in B \cup {BlockOf(t[e])} : \E i \in Index : t[i].used /\ BlockOf(t[i]) = b
  BY DEF ListFits
<1>2. \A i \in Index : t[i].used => BlockOf(t[i]) \in B \cup {BlockOf(t[e])} BY DEF ListFits
<1>3. \A i \in Index \ {e} : t[i].used => t[i].base # t[e].base
  <2> SUFFICES ASSUME NEW i \in Index \ {e}, t[i].used PROVE t[i].base # t[e].base OBVIOUS
  <2>1. BlockOf(t[i]) \in B BY DEF ListFits
  <2>2. BlockOf(t[i]).base = t[i].base BY DEF BlockOf
  <2> QED BY <2>1, <2>2
<1> QED BY <1>1, <1>2, <1>3 DEF ListFits

\* The entry of a buffer is taken out with it.
LEMMA EntryTaken ==
  ASSUME NEW t, NEW e \in Index, NEW B, ListFits(t, {}, B), t[e].used
  PROVE  ListFits(t, {e}, B \ {BlockOf(t[e])})
<1>1. \A i \in Index : t[i].used /\ BlockOf(t[i]) = BlockOf(t[e]) => i = e
  <2> SUFFICES ASSUME NEW i \in Index, t[i].used, BlockOf(t[i]) = BlockOf(t[e]) PROVE i = e
    OBVIOUS
  <2>1. t[i].base = t[e].base BY DEF BlockOf
  <2> QED BY <2>1 DEF ListFits
<1> QED BY <1>1 DEF ListFits

-----------------------------------------------------------------------------
(***************************************************************************)
(* One store.                                                              *)
(***************************************************************************)
LEMMA UnusedIs == Unused \in Entry /\ ~Unused.used
BY DEF Unused, Entry

LEMMA EntryStored ==
  ASSUME table \in [Index -> Entry], NEW e \in Index, NEW f \in Fields, NEW v \in Entry,
         table' = [table EXCEPT ![e][f] = v[f]]
  PROVE  /\ table' \in [Index -> Entry]
         /\ \A i \in Index \ {e} : table'[i] = table[i]
         /\ table'[e][f] = v[f] /\ \A g \in Fields \ {f} : table'[e][g] = table[e][g]
<1> DEFINE d == [table[e] EXCEPT ![f] = v[f]]
<1>1. d \in Entry /\ d[f] = v[f] /\ \A g \in Fields \ {f} : d[g] = table[e][g]
  <2>1. table[e] \in Entry /\ d = [table[e] EXCEPT ![f] = v[f]] OBVIOUS
  <2>2. v \in Entry /\ f \in Fields OBVIOUS
  <2> HIDE DEF d
  <2>3. CASE f = "base" BY <2>1, <2>2, <2>3 DEF Entry, Fields
  <2>4. CASE f = "pages" BY <2>1, <2>2, <2>4 DEF Entry, Fields
  <2>5. CASE f = "used" BY <2>1, <2>2, <2>5 DEF Entry, Fields
  <2> QED BY <2>2, <2>3, <2>4, <2>5 DEF Fields
<1>2. table' = [table EXCEPT ![e] = d] OBVIOUS
<1> HIDE DEF d
<1> QED BY <1>1, <1>2

-----------------------------------------------------------------------------
(***************************************************************************)
(* The actions.                                                            *)
(***************************************************************************)
LEMMA PcIs ==
  ASSUME MainOK
  PROVE  /\ main.pc \in {"rest", "pages", "fill", "free", "clear"}
         /\ main.pc = "rest" <=> main = AtRest
         /\ main.pc = "pages" => main \in [pc : {"pages"}, entry : Index, pages : Nat \ {0}]
         /\ main.pc = "fill" =>
              main \in [pc : {"fill"}, entry : Index, todo : SUBSET Fields, new : Entry]
         /\ main.pc = "free" => main \in [pc : {"free"}, entry : Index, base : Nat, page : Nat]
         /\ main.pc = "clear" => main \in [pc : {"clear"}, entry : Index, todo : SUBSET Fields]
BY DEF MainOK, AtRest

LEMMA RunsIn ==
  ASSUME NEW u, NEW n \in Nat \ {0}, Runs(u, n) # {}
  PROVE  LET b == Least(Runs(u, n))
         IN b \in Nat /\ Run(b, n) \cap u = {} /\ b \in Run(b, n)
<1>1. Runs(u, n) \in SUBSET Nat BY DEF Runs
<1>2. Least(Runs(u, n)) \in Runs(u, n) BY <1>1, LeastIn
<1> QED BY <1>1, <1>2 DEF Runs, Run

LEMMA FreeEntryIn ==
  ASSUME NEW t, FreeEntries(t) # {}
  PROVE  Least(FreeEntries(t)) \in Index /\ ~t[Least(FreeEntries(t))].used
<1>1. FreeEntries(t) \in SUBSET Nat BY DEF FreeEntries, Index
<1>2. Least(FreeEntries(t)) \in FreeEntries(t) BY <1>1, LeastIn
<1> QED BY <1>2 DEF FreeEntries

LEMMA InitInv == HeapInit => HeapInv
<1> SUFFICES ASSUME HeapInit PROVE HeapInv OBVIOUS
<1>1. /\ used = {} /\ table = [i \in Index |-> Unused] /\ main = AtRest /\ blocks = {}
      /\ held = {} /\ main.pc = "rest"
  BY DEF HeapInit, AtRest
<1>2. HeapTypeOK BY <1>1, UnusedIs DEF HeapTypeOK, MainOK
<1>3. Mine = {} /\ Working = {} BY <1>1 DEF Mine, Working
<1>4. PagesFit(used, held, blocks, Mine) BY <1>1, <1>3 DEF PagesFit
<1>5. ListFits(table, Working, blocks) BY <1>1, <1>3, UnusedIs DEF ListFits
<1>6. EntryFits BY <1>1 DEF EntryFits
<1> QED BY <1>2, <1>4, <1>5, <1>6 DEF HeapInv

LEMMA MallocKeeps ==
  ASSUME HeapInv, NEW n \in Nat \ {0}, Malloc(n) PROVE HeapInv'
<1> DEFINE e == Least(FreeEntries(table))
<1>1. /\ main = AtRest /\ UNCHANGED <<used, table, blocks, held, torn>>
      /\ main' = [pc |-> "pages", entry |-> e, pages |-> n]
  BY DEF Malloc
<1>2. e \in Index /\ ~table[e].used BY FreeEntryIn DEF Malloc
<1> HIDE DEF e
<1>3. main.pc = "rest" /\ main'.pc = "pages" /\ main'.entry = e BY <1>1 DEF AtRest
<1>4. HeapTypeOK' BY <1>1, <1>2 DEF HeapInv, HeapTypeOK, MainOK
<1>5. Mine' = Mine /\ Working' = Working BY <1>3 DEF Mine, Working
<1>6. EntryFits' BY <1>1, <1>2, <1>3 DEF EntryFits
<1> QED BY <1>1, <1>4, <1>5, <1>6 DEF HeapInv

LEMMA MallocPagesKeeps ==
  ASSUME HeapInv, MallocPages PROVE HeapInv'
<1> USE DEF HeapInv
<1>1. main.pc = "pages" /\ UNCHANGED <<table, blocks, held, torn>> BY DEF MallocPages
<1>2. main \in [pc : {"pages"}, entry : Index, pages : Nat \ {0}]
  BY <1>1, PcIs DEF HeapTypeOK
<1>3. Mine = {} /\ Working = {} BY <1>1 DEF Mine, Working
<1>4. CASE Runs(used, main.pages) = {}
  <2>1. main' = AtRest /\ used' = used BY <1>4 DEF MallocPages
  <2>2. main'.pc = "rest" BY <2>1 DEF AtRest
  <2>3. HeapTypeOK' BY <1>1, <2>1 DEF HeapTypeOK, MainOK
  <2>4. Mine' = {} /\ Working' = {} BY <2>2 DEF Mine, Working
  <2>5. EntryFits' BY <2>2 DEF EntryFits
  <2> QED BY <1>1, <1>3, <2>1, <2>3, <2>4, <2>5
<1>5. CASE Runs(used, main.pages) # {}
  <2> DEFINE b == Least(Runs(used, main.pages))
             new == [base |-> b, pages |-> main.pages, used |-> TRUE]
  <2>1. used' = used \cup Run(b, main.pages)
        /\ main' = [pc |-> "fill", entry |-> main.entry, todo |-> Fields, new |-> new]
    BY <1>5 DEF MallocPages
  <2>2. b \in Nat /\ Run(b, main.pages) \cap used = {} BY <1>2, <1>5, RunsIn
  <2> HIDE DEF b
  <2>3. new \in Entry /\ new.used /\ new.base = b /\ new.pages = main.pages
    BY <1>2, <2>2 DEF Entry
  <2> HIDE DEF new
  <2>4. /\ main'.pc = "fill" /\ main'.entry = main.entry /\ main'.todo = Fields
        /\ main'.new = new
    BY <2>1
  <2>5. HeapTypeOK' BY <1>1, <1>2, <2>1, <2>3 DEF HeapTypeOK, MainOK
  <2>6. Mine' = Run(b, main.pages) /\ Working' = {main.entry}
    BY <2>3, <2>4 DEF Mine, Working
  <2>7. PagesFit(used', held', blocks', Mine')
    BY <1>1, <1>3, <2>1, <2>2, <2>6, RunTaken
  <2>8. ~table[main.entry].used BY <1>1 DEF EntryFits
  <2>9. ListFits(table', Working', blocks')
    BY <1>1, <1>2, <1>3, <2>6, <2>8, UnusedApart
  <2>10. EntryFits' BY <1>1, <1>2, <2>2, <2>3, <2>4, <2>8 DEF EntryFits
  <2> QED BY <2>5, <2>7, <2>9, <2>10
<1> QED BY <1>4, <1>5

\* No entry of another buffer begins where the run of the call in progress does.
LEMMA NoBlockAt ==
  ASSUME HeapTypeOK, PagesFit(used, held, blocks, Mine), NEW x \in Mine, NEW b \in blocks
  PROVE  b.base # x
<1>1. b.base \in Of(b) BY BaseInBlock DEF HeapTypeOK
<1> QED BY <1>1 DEF PagesFit

LEMMA MallocFillKeeps ==
  ASSUME HeapInv, MallocFill PROVE HeapInv'
<1> USE DEF HeapInv
<1> DEFINE e == main.entry
<1>1. main.pc = "fill" /\ UNCHANGED <<used, held, torn>> BY DEF MallocFill
<1>2. main \in [pc : {"fill"}, entry : Index, todo : SUBSET Fields, new : Entry]
  BY <1>1, PcIs DEF HeapTypeOK
<1>3. PICK f \in main.todo :
        /\ table' = [table EXCEPT ![e][f] = main.new[f]]
        /\ IF main.todo = {f}
           THEN /\ main' = AtRest
                /\ blocks' = blocks \cup {[base |-> main.new.base, pages |-> main.new.pages]}
           ELSE /\ main' = [main EXCEPT !.todo = @ \ {f}]
                /\ UNCHANGED blocks
  BY DEF MallocFill
<1>4. e \in Index /\ main.new \in Entry /\ f \in Fields /\ main.todo \in SUBSET Fields BY <1>2
<1>5. /\ table' \in [Index -> Entry]
      /\ \A i \in Index \ {e} : table'[i] = table[i]
      /\ table'[e][f] = main.new[f] /\ \A g \in Fields \ {f} : table'[e][g] = table[e][g]
  BY <1>3, <1>4, EntryStored DEF HeapTypeOK
<1>6. Working = {e} /\ Mine = Run(main.new.base, main.new.pages) BY <1>1 DEF Working, Mine
<1>7. ListFits(table', {e}, blocks) BY <1>5, <1>6, WorkingFree
<1>8. /\ main.new.used /\ main.new.base \in Nat /\ main.new.pages \in Nat /\ main.new.pages > 0
      /\ \A g \in Fields \ main.todo : table[e][g] = main.new[g]
      /\ "used" \in main.todo => ~table[e].used
  BY <1>1, <1>4 DEF EntryFits, Entry
<1>9. \A g \in Fields \ (main.todo \ {f}) : table'[e][g] = main.new[g] BY <1>5, <1>8
<1>10. CASE main.todo # {f}
  <2>1. main' = [main EXCEPT !.todo = @ \ {f}] /\ blocks' = blocks BY <1>3, <1>10
  <2>2. main' \in [pc : {"fill"}, entry : Index, todo : SUBSET Fields, new : Entry]
        /\ main'.entry = e /\ main'.new = main.new /\ main'.todo = main.todo \ {f}
        /\ main'.pc = "fill"
    BY <1>2, <2>1
  <2>3. HeapTypeOK' BY <1>5, <2>1, <2>2 DEF HeapTypeOK, MainOK
  <2>4. Mine' = Mine /\ Working' = {e} BY <1>6, <2>2 DEF Mine, Working
  <2>5. "used" \in main'.todo => ~table'[e].used BY <1>5, <1>8, <2>2 DEF Fields
  <2>6. EntryFits' BY <1>8, <1>9, <2>2, <2>5 DEF EntryFits
  <2> QED BY <1>1, <1>7, <2>1, <2>3, <2>4, <2>6
<1>11. CASE main.todo = {f}
  <2> DEFINE c == [base |-> main.new.base, pages |-> main.new.pages]
  <2>1. main' = AtRest /\ blocks' = blocks \cup {c} BY <1>3, <1>11
  <2>2. main'.pc = "rest" BY <2>1 DEF AtRest
  <2>3. c \in Block /\ c.base = main.new.base /\ c.pages = main.new.pages BY <1>8 DEF Block
  <2>4. Of(c) = Mine BY <1>6, <2>3 DEF Of
  <2>5. /\ table'[e].base = main.new.base /\ table'[e].pages = main.new.pages /\ table'[e].used
        /\ BlockOf(table'[e]) = c
    BY <1>8, <1>9, <1>11 DEF Fields, BlockOf
  <2> HIDE DEF c
  <2>6. HeapTypeOK' BY <1>5, <2>1, <2>3 DEF HeapTypeOK, MainOK
  <2>7. Mine' = {} /\ Working' = {} BY <2>2 DEF Mine, Working
  <2>8. PagesFit(used', held', blocks', Mine')
    BY <1>1, <2>1, <2>4, <2>7, RunBecomesBlock
  <2>9. \A b \in blocks : b.base # table'[e].base
    <3>1. main.new.base \in Mine BY <1>6, <1>8 DEF Run
    <3> QED BY <2>5, <3>1, NoBlockAt
  <2>10. ListFits(table', Working', blocks')
    BY <1>4, <1>7, <2>1, <2>5, <2>7, <2>9, EntrySet
  <2>11. EntryFits' BY <2>2 DEF EntryFits
  <2> QED BY <2>6, <2>8, <2>10, <2>11
<1> QED BY <1>10, <1>11

LEMMA FreeKeeps ==
  ASSUME HeapInv, NEW block \in blocks, Kfree(block) PROVE HeapInv'
<1> USE DEF HeapInv
<1> DEFINE e == Least(EntriesAt(table, block.base))
<1>1. /\ main = AtRest /\ main.pc = "rest" /\ blocks' = blocks \ {block}
      /\ UNCHANGED <<used, table, held, torn>>
  BY DEF Kfree, AtRest
<1>2. Mine = {} /\ Working = {} BY <1>1 DEF Mine, Working
<1>3. EntriesAt(table, block.base) # {}
  <2>1. PICK i \in Index : table[i].used /\ BlockOf(table[i]) = block BY <1>2 DEF ListFits
  <2>2. table[i].base = block.base BY <2>1 DEF BlockOf
  <2> QED BY <2>1, <2>2 DEF EntriesAt
<1>4. e \in Index /\ table[e].used /\ table[e].base = block.base
  <2>1. EntriesAt(table, block.base) \in SUBSET Nat BY DEF EntriesAt, Index
  <2>2. e \in EntriesAt(table, block.base) BY <1>3, <2>1, LeastIn
  <2> QED BY <2>2 DEF EntriesAt
<1>5. main' = [pc |-> "free", entry |-> e, base |-> block.base, page |-> 0]
  BY <1>3 DEF Kfree
<1> HIDE DEF e
<1>6. block = BlockOf(table[e])
  <2>1. BlockOf(table[e]) \in blocks BY <1>2, <1>4 DEF ListFits
  <2>2. BlockOf(table[e]).base = block.base BY <1>4 DEF BlockOf
  <2>3. block.base \in Of(block) /\ block.base \in Of(BlockOf(table[e]))
    BY <2>1, <2>2, BaseInBlock DEF HeapTypeOK
  <2> QED BY <2>1, <2>3 DEF PagesFit
<1>7. block.pages = table[e].pages /\ block.base \in Nat /\ table[e].pages \in Nat
  BY <1>6 DEF BlockOf, HeapTypeOK, Block
<1>8. main'.pc = "free" /\ main'.entry = e /\ main'.base = block.base /\ main'.page = 0
  BY <1>5
<1>9. HeapTypeOK' BY <1>1, <1>4, <1>5, <1>7 DEF HeapTypeOK, MainOK
<1>10. Mine' = Of(block) /\ Working' = {e}
  BY <1>1, <1>7, <1>8 DEF Mine, Working, Of, Run
<1>11. PagesFit(used', held', blocks', Mine') BY <1>1, <1>2, <1>10, BlockBecomesRun
<1>12. ListFits(table', Working', blocks')
  BY <1>1, <1>2, <1>4, <1>6, <1>10, EntryTaken
<1>13. EntryFits' BY <1>8 DEF EntryFits
<1> QED BY <1>9, <1>11, <1>12, <1>13

LEMMA FreePageKeeps ==
  ASSUME HeapInv, FreePage PROVE HeapInv'
<1> USE DEF HeapInv
<1> DEFINE x == main.base + main.page
<1>1. /\ main.pc = "free" /\ main.page < table[main.entry].pages
      /\ used' = used \ {x} /\ main' = [main EXCEPT !.page = @ + 1]
      /\ UNCHANGED <<table, blocks, held, torn>>
  BY DEF FreePage
<1>2. main \in [pc : {"free"}, entry : Index, base : Nat, page : Nat]
  BY <1>1, PcIs DEF HeapTypeOK
<1>3. /\ main' \in [pc : {"free"}, entry : Index, base : Nat, page : Nat]
      /\ main'.pc = "free" /\ main'.entry = main.entry /\ main'.base = main.base
      /\ main'.page = main.page + 1
  BY <1>1, <1>2
<1>4. table[main.entry].pages \in Nat /\ main.base \in Nat /\ main.page \in Nat
  BY <1>2 DEF HeapTypeOK, Entry
<1>5. x \in Mine /\ Mine' = Mine \ {x} BY <1>1, <1>3, <1>4 DEF Mine
<1>6. Working' = Working BY <1>1, <1>3 DEF Working
<1>7. HeapTypeOK' BY <1>1, <1>3 DEF HeapTypeOK, MainOK
<1>8. PagesFit(used', held', blocks', Mine') BY <1>1, <1>5, PageFreed
<1>9. EntryFits' BY <1>3 DEF EntryFits
<1> QED BY <1>1, <1>6, <1>7, <1>8, <1>9

LEMMA FreeEndKeeps ==
  ASSUME HeapInv, FreeEnd PROVE HeapInv'
<1> USE DEF HeapInv
<1>1. /\ main.pc = "free" /\ main.page >= table[main.entry].pages
      /\ main' = [pc |-> "clear", entry |-> main.entry, todo |-> Fields]
      /\ UNCHANGED <<used, table, blocks, held, torn>>
  BY DEF FreeEnd
<1>2. main \in [pc : {"free"}, entry : Index, base : Nat, page : Nat]
  BY <1>1, PcIs DEF HeapTypeOK
<1>3. table[main.entry].pages \in Nat BY <1>2 DEF HeapTypeOK, Entry
<1>4. main'.pc = "clear" /\ main'.entry = main.entry /\ main'.todo = Fields BY <1>1
<1>5. Mine = {} BY <1>1, <1>2, <1>3 DEF Mine
<1>6. Mine' = {} /\ Working' = Working BY <1>1, <1>4 DEF Mine, Working
<1>7. HeapTypeOK' BY <1>1, <1>2 DEF HeapTypeOK, MainOK
<1>8. EntryFits' BY <1>4 DEF EntryFits
<1> QED BY <1>1, <1>5, <1>6, <1>7, <1>8

LEMMA FreeClearKeeps ==
  ASSUME HeapInv, FreeClear PROVE HeapInv'
<1> USE DEF HeapInv
<1> DEFINE e == main.entry
<1>1. main.pc = "clear" /\ UNCHANGED <<used, blocks, held, torn>> BY DEF FreeClear
<1>2. main \in [pc : {"clear"}, entry : Index, todo : SUBSET Fields]
  BY <1>1, PcIs DEF HeapTypeOK
<1>3. PICK f \in main.todo :
        /\ table' = [table EXCEPT ![e][f] = Unused[f]]
        /\ main' = IF main.todo = {f} THEN AtRest ELSE [main EXCEPT !.todo = @ \ {f}]
  BY DEF FreeClear
<1>4. e \in Index /\ f \in Fields /\ main.todo \in SUBSET Fields BY <1>2
<1>5. /\ table' \in [Index -> Entry]
      /\ \A i \in Index \ {e} : table'[i] = table[i]
      /\ table'[e][f] = Unused[f] /\ \A g \in Fields \ {f} : table'[e][g] = table[e][g]
  BY <1>3, <1>4, UnusedIs, EntryStored, ZenonT(60) DEF HeapTypeOK
<1>6. Working = {e} /\ Mine = {} BY <1>1 DEF Working, Mine
<1>7. ListFits(table', {e}, blocks) BY <1>5, <1>6, WorkingFree
<1>8. \A g \in Fields \ main.todo : table[e][g] = Unused[g] BY <1>1 DEF EntryFits
<1>9. \A g \in Fields \ (main.todo \ {f}) : table'[e][g] = Unused[g] BY <1>5, <1>8
<1>10. CASE main.todo # {f}
  <2>1. main' = [main EXCEPT !.todo = @ \ {f}] BY <1>3, <1>10
  <2>2. main' \in [pc : {"clear"}, entry : Index, todo : SUBSET Fields]
        /\ main'.entry = e /\ main'.todo = main.todo \ {f} /\ main'.pc = "clear"
    BY <1>2, <2>1
  <2>3. HeapTypeOK' BY <1>1, <1>5, <2>2 DEF HeapTypeOK, MainOK
  <2>4. Mine' = {} /\ Working' = {e} BY <2>2 DEF Mine, Working
  <2>5. EntryFits' BY <1>9, <2>2 DEF EntryFits
  <2> QED BY <1>1, <1>6, <1>7, <2>3, <2>4, <2>5
<1>11. CASE main.todo = {f}
  <2>1. main' = AtRest /\ main'.pc = "rest" BY <1>3, <1>11 DEF AtRest
  <2>2. ~table'[e].used BY <1>9, <1>11, UnusedIs DEF Fields
  <2>3. HeapTypeOK' BY <1>1, <1>5, <2>1 DEF HeapTypeOK, MainOK
  <2>4. Mine' = {} /\ Working' = {} BY <2>1 DEF Mine, Working
  <2>5. ListFits(table', Working', blocks') BY <1>1, <1>4, <1>7, <2>2, <2>4, UnusedApart
  <2>6. EntryFits' BY <2>1 DEF EntryFits
  <2> QED BY <1>1, <1>6, <2>3, <2>4, <2>5, <2>6
<1> QED BY <1>10, <1>11

\* A file call that comes before the desktop writes or frees leaves the table as it lists
\* the buffers, and gives back the run that it took.
LEMMA FileCallKeeps ==
  ASSUME HeapInv, CallSize \in Nat \ {0}, FileCall, ~Between PROVE HeapInv'
<1> USE DEF HeapInv
<1> DEFINE i == Least(FreeEntries(table))
           b == Least(Runs(used, CallSize))
           new == [base |-> b, pages |-> CallSize, used |-> TRUE]
           filled == [table EXCEPT ![i] = new]
           j == Least(EntriesAt(filled, b))
<1>1. /\ FreeEntries(table) # {} /\ Runs(used, CallSize) # {}
      /\ used' = (used \cup Run(b, CallSize)) \ Run(b, filled[j].pages)
      /\ table' = [filled EXCEPT ![j] = Unused]
      /\ UNCHANGED <<main, blocks, held>>
  BY DEF FileCall
<1>2. i \in Index /\ ~table[i].used BY <1>1, FreeEntryIn
<1>3. b \in Nat /\ Run(b, CallSize) \cap used = {} /\ b \in Run(b, CallSize) BY <1>1, RunsIn
<1> HIDE DEF i, b
<1>4. new \in Entry /\ new.used /\ new.base = b /\ new.pages = CallSize BY <1>3 DEF Entry
<1> HIDE DEF new
<1>5. /\ filled \in [Index -> Entry] /\ filled[i] = new
      /\ \A k \in Index \ {i} : filled[k] = table[k]
  BY <1>2, <1>4 DEF HeapTypeOK
<1>6. Working = {} \/ (Working = {main.entry} /\ ~table[main.entry].used)
  <2>1. main.pc \notin {"free", "clear"} /\ ~(main.pc = "fill" /\ main.todo # Fields)
    BY DEF Between
  <2>2. main.pc = "fill" => ~table[main.entry].used BY <2>1 DEF EntryFits, Fields
  <2> QED BY <2>1, <2>2 DEF Working
<1>7. \A k \in Index \ {i} : ~(table[k].used /\ table[k].base = b)
  <2> SUFFICES ASSUME NEW k \in Index, table[k].used, table[k].base = b PROVE FALSE OBVIOUS
  <2>1. BlockOf(table[k]) \in blocks BY <1>6 DEF ListFits
  <2>2. BlockOf(table[k]).base = b BY DEF BlockOf
  <2>3. b \in Of(BlockOf(table[k])) BY <2>1, <2>2, BaseInBlock DEF HeapTypeOK
  <2> QED BY <1>3, <2>1, <2>3 DEF PagesFit
<1>8. EntriesAt(filled, b) = {i} BY <1>2, <1>4, <1>5, <1>7 DEF EntriesAt
<1>9. j = i
  <2>1. {i} \in SUBSET Nat BY <1>2 DEF Index
  <2> QED BY <1>8, <2>1, LeastIn
<1>10. used' = used BY <1>1, <1>3, <1>4, <1>5, <1>9
<1> HIDE DEF filled, j
<1>11. /\ table' \in [Index -> Entry] /\ ~table'[i].used
       /\ \A k \in Index \ {i} : table'[k] = table[k]
  BY <1>1, <1>2, <1>5, <1>9, UnusedIs
<1>12. HeapTypeOK' BY <1>1, <1>11 DEF HeapTypeOK, MainOK
<1>13. ListFits(table', Working, blocks) BY <1>2, <1>11, UnusedReplaced
<1>14. main.pc # "free" BY DEF Between
<1>15. Mine' = Mine /\ Working' = Working BY <1>1, <1>14 DEF Mine, Working
<1>16. EntryFits'
  <2>1. main.pc # "clear" /\ (main.pc = "fill" => main.todo = Fields) BY DEF Between
  <2>2. main.pc \in {"pages", "fill"} => main.entry \in Index
    BY PcIs DEF HeapTypeOK
  <2> QED BY <1>1, <1>11, <2>1, <2>2 DEF EntryFits, Fields
<1> QED BY <1>1, <1>10, <1>12, <1>13, <1>15, <1>16

LEMMA TakePageKeeps ==
  ASSUME HeapInv, TakePage PROVE HeapInv'
<1> DEFINE x == Least(Runs(used, 1))
<1>1. /\ Runs(used, 1) # {} /\ used' = used \cup {x} /\ held' = held \cup {x}
      /\ UNCHANGED <<table, main, blocks, torn>>
  BY DEF TakePage
<1>2. x \notin used BY <1>1, RunsIn
<1> HIDE DEF x
<1>3. Mine' = Mine /\ Working' = Working BY <1>1 DEF Mine, Working
<1>4. PagesFit(used', held', blocks', Mine') BY <1>1, <1>2, <1>3, PageTaken DEF HeapInv
<1> QED BY <1>1, <1>3, <1>4 DEF HeapInv, HeapTypeOK, MainOK, EntryFits

LEMMA GivePageKeeps ==
  ASSUME HeapInv, NEW x \in held, GivePage(x) PROVE HeapInv'
<1>1. used' = used \ {x} /\ held' = held \ {x} /\ UNCHANGED <<table, main, blocks, torn>>
  BY DEF GivePage
<1>2. Mine' = Mine /\ Working' = Working BY <1>1 DEF Mine, Working
<1>3. PagesFit(used', held', blocks', Mine') BY <1>1, <1>2, PageGiven DEF HeapInv
<1> QED BY <1>1, <1>2, <1>3 DEF HeapInv, HeapTypeOK, MainOK, EntryFits

-----------------------------------------------------------------------------
\* Once a file call has come in the middle, nothing is promised any more.
HeapSafe == torn \/ HeapInv

LEMMA TornStays ==
  ASSUME torn, [HeapNext]_heapVars PROVE torn'
BY DEF HeapNext, heapVars, Malloc, MallocPages, MallocFill, Kfree, FreePage, FreeEnd, FreeClear, FileCall,
       TakePage, GivePage

LEMMA HeapStep ==
  ASSUME HeapAssumption, HeapSafe, [HeapNext]_heapVars PROVE HeapSafe'
<1>1. CASE torn BY <1>1, TornStays DEF HeapSafe
<1>2. CASE HeapInv
  <2>1. CASE \E n \in Sizes : Malloc(n)
    <3>1. Sizes \subseteq Nat \ {0} BY DEF HeapAssumption
    <3> QED BY <1>2, <2>1, <3>1, MallocKeeps DEF HeapSafe
  <2>2. CASE MallocPages BY <1>2, <2>2, MallocPagesKeeps DEF HeapSafe
  <2>3. CASE MallocFill BY <1>2, <2>3, MallocFillKeeps DEF HeapSafe
  <2>4. CASE \E block \in blocks : Kfree(block) BY <1>2, <2>4, FreeKeeps DEF HeapSafe
  <2>5. CASE FreePage BY <1>2, <2>5, FreePageKeeps DEF HeapSafe
  <2>6. CASE FreeEnd BY <1>2, <2>6, FreeEndKeeps DEF HeapSafe
  <2>7. CASE FreeClear BY <1>2, <2>7, FreeClearKeeps DEF HeapSafe
  <2>8. CASE FileCall
    <3>1. CallSize \in Nat \ {0} BY DEF HeapAssumption
    <3>2. CASE Between BY <2>8, <3>2 DEF FileCall, HeapSafe
    <3>3. CASE ~Between BY <1>2, <2>8, <3>1, <3>3, FileCallKeeps DEF HeapSafe
    <3> QED BY <3>2, <3>3
  <2>9. CASE TakePage BY <1>2, <2>9, TakePageKeeps DEF HeapSafe
  <2>10. CASE \E f \in held : GivePage(f) BY <1>2, <2>10, GivePageKeeps DEF HeapSafe
  <2>11. CASE UNCHANGED heapVars
    BY <1>2, <2>11
       DEF heapVars, HeapSafe, HeapInv, HeapTypeOK, MainOK, EntryFits, Mine, Working
  <2> QED BY <2>1, <2>2, <2>3, <2>4, <2>5, <2>6, <2>7, <2>8, <2>9, <2>10, <2>11 DEF HeapNext
<1> QED BY <1>1, <1>2 DEF HeapSafe

-----------------------------------------------------------------------------
LEMMA InvApart == HeapInv => Apart
BY DEF HeapInv, PagesFit, Apart

\* The entries in use and the buffers, one to one.
LEMMA InvListed == HeapAssumption /\ HeapInv => Listed
<1> SUFFICES ASSUME HeapAssumption, HeapInv, main = AtRest PROVE Listed BY DEF Listed
<1> DEFINE Full == Index \ FreeEntries(table)
           AsEntry(b) == [base |-> b.base, pages |-> b.pages, used |-> TRUE]
           f == [i \in Full |-> BlockOf(table[i])]
<1>1. main.pc = "rest" BY DEF AtRest
<1>2. Mine = {} /\ Working = {} BY <1>1 DEF Mine, Working
<1>3. used = held \cup UNION {Of(b) : b \in blocks} BY <1>2 DEF HeapInv, PagesFit
<1>4. \A i \in Full : table[i] \in Entry /\ table[i].used /\ BlockOf(table[i]) \in blocks
  BY <1>2 DEF HeapInv, HeapTypeOK, ListFits, FreeEntries
<1>5. \A b \in blocks : \E i \in Full : BlockOf(table[i]) = b
  BY <1>2 DEF HeapInv, ListFits, FreeEntries
<1>6. \A i \in Full : table[i] = AsEntry(BlockOf(table[i]))
  <2> SUFFICES ASSUME NEW i \in Full PROVE table[i] = AsEntry(BlockOf(table[i])) OBVIOUS
  <2>1. table[i] \in Entry /\ table[i].used BY <1>4
  <2>2. BlockOf(table[i]).base = table[i].base /\ BlockOf(table[i]).pages = table[i].pages
    BY DEF BlockOf
  <2> QED BY <2>1, <2>2 DEF Entry
<1>7. {table[i] : i \in Full} = {AsEntry(b) : b \in blocks}
  <2>1. \A i \in Full : \E b \in blocks : table[i] = AsEntry(b) BY <1>4, <1>6
  <2>2. \A b \in blocks : \E i \in Full : table[i] = AsEntry(b) BY <1>5, <1>6
  <2> HIDE DEF Full, AsEntry
  <2> QED BY <2>1, <2>2
<1>8. Cardinality(Full) = Cardinality(blocks)
  <2>1. \A i, j \in Full : BlockOf(table[i]) = BlockOf(table[j]) => i = j
    <3> SUFFICES ASSUME NEW i \in Full, NEW j \in Full, BlockOf(table[i]) = BlockOf(table[j])
                 PROVE  i = j
      OBVIOUS
    <3>1. table[i].base = table[j].base BY DEF BlockOf
    <3> QED BY <1>2, <1>4, <3>1 DEF HeapInv, ListFits
  <2>2. f \in Bijection(Full, blocks)
    <3>1. f \in [Full -> blocks] BY <1>4
    <3>2. f \in Injection(Full, blocks) BY <2>1, <3>1 DEF Injection, IsInjective
    <3>3. f \in Surjection(Full, blocks) BY <1>5, <3>1 DEF Surjection
    <3> QED BY <3>2, <3>3 DEF Bijection
  <2>3. IsFiniteSet(Full)
    <3>1. MaxAllocs - 1 \in Int BY DEF HeapAssumption
    <3>2. IsFiniteSet(Index) BY <3>1, FS_Interval DEF Index
    <3> QED BY <3>2, FS_Subset
  <2> QED BY <2>2, <2>3, FS_Bijection DEF ExistsBijection
<1> QED BY <1>3, <1>7, <1>8 DEF Listed

\* Wherever interrupts come, the desktop's buffers and the processes' pages are nobody
\* else's, and the table lists the buffers and no page is lost, unless a file call came
\* while the desktop was writing an entry or freeing its pages.
THEOREM HeapHolds == HeapSpec => []HeapWhole
<1>1. HeapInit => HeapSafe BY InitInv DEF HeapSafe
<1>2. HeapSafe /\ [HeapNext]_heapVars => HeapSafe' BY HeapStep, HeapAssumption
<1>3. HeapSafe => HeapWhole
  BY HeapAssumption, InvApart, InvListed DEF HeapSafe, HeapWhole, ApartUnlessTorn, ListedUnlessTorn
<1> QED BY <1>1, <1>2, <1>3, PTL DEF HeapSpec

-----------------------------------------------------------------------------
(***************************************************************************)
(* The start of the other processors.                                      *)
(***************************************************************************)
Waking == {"init", "sipi1", "wait1", "sipi2", "wait2"}
Reads == {"waits", "trampoline", "enters"}

SmpTypeOK ==
  /\ bsp \in [pc : Waking \cup {"next", "done"}, index : Nat \ {0}]
  /\ bsp.index <= Cpus
  /\ bsp.pc \in Waking => bsp.index \in Others
  /\ stackWord \in Nat /\ cpuWord \in Nat
  /\ ap \in [Others -> [pc : Reads \cup {"off", "main", "kernel", "marked", "online"},
                        stack : Nat, index : Nat]]
  /\ online_count \in Nat

\* Nobody is awake beyond the processor being woken.
Awake == \A c \in Others : ap[c].pc # "off" =>
           /\ c <= bsp.index
           /\ c = bsp.index => bsp.pc \notin {"next", "init"}

\* Those before it are there.
Done == \A c \in Others : c < bsp.index => ap[c].pc = "online"

\* The words are those of the processor being woken, and of one that may still read them.
Words ==
  /\ bsp.pc \in Waking => stackWord = bsp.index /\ cpuWord = bsp.index
  /\ \A c \in Others : ap[c].pc \in Reads => stackWord = c /\ cpuWord = c

\* A bit of ap_online_mask, and the mark online, are set by the processor they name.
Bits == \A i \in mask : i \in Others /\ ap[i].pc = "online"
Marks == \A c \in Others : ap[c].pc \in {"marked", "online"} => c \in online

\* Those counted come before the processor being woken.
Counted == online_count <= bsp.index

SmpInv == /\ SmpTypeOK /\ Awake /\ Done /\ Words /\ OwnStack
          /\ Bits /\ Marks /\ Counted

-----------------------------------------------------------------------------
LEMMA SmpInitInv == SmpInit => SmpInv
BY SmpAssumption
   DEF SmpInit, SmpInv, SmpTypeOK, Awake, Done, Words, OwnStack, Bits, Marks, Counted,
       Asleep, Others, Waking, Reads

LEMMA StartKeeps ==
  ASSUME SmpInv, Prepare \/ Finish \/ FirstTimeout \/ LastTimeout PROVE SmpInv'
<1>1. CASE Prepare
  <2>1. \A c \in Others : ap[c].pc \in {"off", "online"}
    BY <1>1 DEF SmpInv, SmpTypeOK, Awake, Done, Others, Prepare
  <2> QED
    BY <1>1, <2>1, SmpAssumption
       DEF SmpInv, SmpTypeOK, Awake, Done, Words, OwnStack, Bits, Marks, Counted,
           Others, Waking, Reads, Prepare, BspGoes
<1>2. ASSUME NEW pc \in {"done", "sipi2"}, BspGoes(pc), bsp.pc # "init",
             pc = "done" \/ bsp.pc = "wait1",
             UNCHANGED <<stackWord, cpuWord, ap, mask, online, online_count>>
      PROVE  SmpInv'
  <2>1. bsp'.pc = pc /\ bsp'.index = bsp.index /\ bsp' \in [pc : Waking \cup {"next", "done"}, index : Nat \ {0}]
    BY <1>2 DEF SmpInv, SmpTypeOK, BspGoes, Waking
  <2>2. SmpTypeOK' BY <1>2, <2>1 DEF SmpInv, SmpTypeOK, Waking, Others
  <2>3. Awake' /\ Done' BY <1>2, <2>1 DEF SmpInv, Awake, Done, Others
  <2>4. Words' BY <1>2, <2>1 DEF SmpInv, Words, Waking
  <2>5. OwnStack' /\ Bits' /\ Marks' /\ Counted'
    BY <1>2, <2>1 DEF SmpInv, OwnStack, Bits, Marks, Counted
  <2> QED BY <2>2, <2>3, <2>4, <2>5 DEF SmpInv
<1>3. CASE Finish \/ FirstTimeout \/ LastTimeout
  BY <1>3, <1>2 DEF Finish, FirstTimeout, LastTimeout
<1> QED BY <1>1, <1>3

LEMMA SeenKeeps == ASSUME SmpInv, Seen PROVE SmpInv'
<1>1. /\ bsp.index \in Others /\ ap[bsp.index].pc = "online"
      /\ bsp'.index \in 2 .. Cpus
  BY SmpAssumption DEF SmpInv, SmpTypeOK, Bits, Seen, Others
<1>2. Done'
  BY <1>1 DEF SmpInv, SmpTypeOK, Done, Seen, Others
<1> QED
  BY <1>1, <1>2
     DEF SmpInv, SmpTypeOK, Awake, Words, OwnStack, Bits, Marks, Counted,
         Others, Waking, Reads, Seen

\* A processor changes: what a step must show of it.
Fits(c, r) ==
  /\ r \in [pc : Reads \cup {"off", "main", "kernel", "marked", "online"},
            stack : Nat, index : Nat]
  /\ r.pc # "off"
  /\ c < bsp.index => r.pc = "online"
  /\ r.pc \in Reads => stackWord = c /\ cpuWord = c
  /\ r.pc \notin {"off", "waits", "trampoline"} => r.stack = c
  /\ r.pc \in {"main", "kernel", "marked", "online"} => r.index = c

LEMMA ApChange ==
  ASSUME SmpInv, NEW c \in Others, NEW r, Fits(c, r), ap' = [ap EXCEPT ![c] = r],
         c <= bsp.index, bsp'.index = bsp.index, bsp' \in [pc : Waking \cup {"next", "done"}, index : Nat \ {0}],
         bsp'.pc \in Waking => bsp.pc \in Waking,
         bsp'.pc \notin {"next", "init"} \/ (bsp' = bsp /\ ap[c].pc # "off"),
         UNCHANGED <<stackWord, cpuWord, online_count>>,
         online \subseteq online', r.pc \in {"marked", "online"} => c \in online',
         mask' = mask \/ mask' = mask \cup {c}, c \in mask' => r.pc = "online"
  PROVE  SmpInv'
<1>1. /\ ap' \in [Others -> [pc : Reads \cup {"off", "main", "kernel", "marked", "online"},
                             stack : Nat, index : Nat]]
      /\ ap'[c] = r
      /\ \A d \in Others \ {c} : ap'[d] = ap[d]
  BY DEF SmpInv, SmpTypeOK, Fits
<1>2. SmpTypeOK' BY <1>1 DEF SmpInv, SmpTypeOK, Others
<1>3. Awake' BY <1>1 DEF SmpInv, SmpTypeOK, Awake, Others
<1>4. Done' BY <1>1 DEF SmpInv, SmpTypeOK, Done, Others, Fits
<1>5. Words' BY <1>1 DEF SmpInv, Words, Fits
<1>6. OwnStack' BY <1>1 DEF SmpInv, OwnStack, Fits
<1>7. Bits' BY <1>1 DEF SmpInv, Bits
<1>8. Marks' /\ Counted' BY <1>1 DEF SmpInv, Marks, Counted
<1> QED BY <1>2, <1>3, <1>4, <1>5, <1>6, <1>7, <1>8 DEF SmpInv

\* The startup messages reach the processor being woken, whose words they are.
LEMMA WakeKeeps ==
  ASSUME SmpInv, SendInit \/ Startup("sipi1", "wait1") \/ Startup("sipi2", "wait2")
  PROVE  SmpInv'
<1>0. PICK c : c = bsp.index OBVIOUS
<1>1. /\ c \in Others /\ stackWord = c /\ cpuWord = c
      /\ bsp.pc \in Waking /\ bsp'.pc \in Waking
      /\ bsp' \in [pc : Waking \cup {"next", "done"}, index : Nat \ {0}]
      /\ bsp'.index = c /\ bsp'.pc \notin {"next", "init"}
  BY <1>0 DEF SmpInv, SmpTypeOK, Words, SendInit, Startup, BspGoes, Waking
<1>2. c \in Nat /\ c <= bsp.index BY <1>0, <1>1 DEF Others
<1>3. CASE SendInit
  <2> DEFINE r == [Asleep EXCEPT !.pc = "waits"]
  <2>1. r = [pc |-> "waits", stack |-> 0, index |-> 0] BY DEF Asleep
  <2>2. ap[c].pc = "off" BY <1>0, <1>1, <1>3 DEF SmpInv, Awake, SendInit
  <2>3. Fits(c, r) /\ c \notin mask BY <1>0, <1>1, <1>2, <2>1, <2>2 DEF Fits, Reads, SmpInv, Bits
  <2>4. ap' = [ap EXCEPT ![c] = r] BY <1>0, <1>3 DEF SendInit
  <2>5. UNCHANGED <<stackWord, cpuWord, mask, online, online_count>> BY <1>3 DEF SendInit
  <2>6. r.pc = "waits" BY <2>1
  <2> HIDE DEF r
  <2> QED BY <1>0, <1>1, <1>2, <2>3, <2>4, <2>5, <2>6, ApChange
<1>4. CASE /\ ap[c].pc = "waits"
           /\ ap' = [ap EXCEPT ![c].pc = "trampoline"]
           /\ UNCHANGED <<stackWord, cpuWord, mask, online, online_count, directory, cr3>>
  <2> DEFINE r == [ap[c] EXCEPT !.pc = "trampoline"]
  <2>1. r = [pc |-> "trampoline", stack |-> ap[c].stack, index |-> ap[c].index]
        /\ ap[c].stack \in Nat /\ ap[c].index \in Nat
    BY <1>1 DEF SmpInv, SmpTypeOK
  <2>2. Fits(c, r) /\ c \notin mask BY <1>0, <1>1, <1>2, <1>4, <2>1 DEF Fits, Reads, SmpInv, Bits
  <2>3. ap' = [ap EXCEPT ![c] = r] BY <1>4
  <2>4. r.pc = "trampoline" BY <2>1
  <2> HIDE DEF r
  <2> QED BY <1>0, <1>1, <1>2, <1>4, <2>2, <2>3, <2>4, ApChange
<1>5. CASE UNCHANGED <<ap, stackWord, cpuWord, mask, online, online_count, directory, cr3>>
  <2>1. SmpTypeOK' BY <1>0, <1>1, <1>5 DEF SmpInv, SmpTypeOK, Others
  <2>2. Awake' /\ Done' BY <1>0, <1>1, <1>5 DEF SmpInv, Awake, Done, Others, Waking
  <2>3. Words' BY <1>0, <1>1, <1>5 DEF SmpInv, Words
  <2>4. UNCHANGED <<OwnStack, Bits, Marks>> BY <1>5 DEF OwnStack, Bits, Marks
  <2>5. Counted' BY <1>0, <1>1, <1>5 DEF SmpInv, Counted
  <2> QED BY <2>1, <2>2, <2>3, <2>4, <2>5 DEF SmpInv
<1> QED BY <1>0, <1>3, <1>4, <1>5 DEF Startup

LEMMA ApKeeps ==
  ASSUME SmpInv, NEW c \in Others,
         LoadStack(c) \/ LoadIndex(c) \/ EnterKernel(c) \/ MarkOnline(c) \/ SetBit(c)
  PROVE  SmpInv'
<1>1. /\ c \in Nat /\ ap[c].stack \in Nat /\ ap[c].index \in Nat
      /\ ap[c] \in [pc : Reads \cup {"off", "main", "kernel", "marked", "online"},
                   stack : Nat, index : Nat]
      /\ bsp \in [pc : Waking \cup {"next", "done"}, index : Nat \ {0}]
      /\ bsp' = bsp /\ UNCHANGED <<stackWord, cpuWord, online_count>>
  BY DEF SmpInv, SmpTypeOK, Others, LoadStack, LoadIndex, EnterKernel, MarkOnline,
         SetBit, ApStep
<1>2. /\ ap[c].pc # "off" /\ ap[c].pc # "online"
      /\ c <= bsp.index /\ ~(c < bsp.index) /\ c \notin mask
  BY DEF SmpInv, Awake, Done, Bits, LoadStack, LoadIndex, EnterKernel, MarkOnline, SetBit,
         ApStep
<1>3. CASE LoadStack(c)
  <2>1. ap[c].pc = "trampoline" /\ stackWord = c /\ cpuWord = c
    BY <1>3 DEF SmpInv, Words, Reads, LoadStack, ApStep
  <2> DEFINE r == [ap[c] EXCEPT !.pc = "enters", !.stack = stackWord]
  <2>2. ap' = [ap EXCEPT ![c] = r] BY <1>3 DEF LoadStack, ApStep
  <2>3. r.pc = "enters" /\ r.stack = c BY <1>1, <2>1
  <2>4. r \in [pc : Reads \cup {"off", "main", "kernel", "marked", "online"},
               stack : Nat, index : Nat]
    BY <1>1, <2>1 DEF Reads
  <2>5. UNCHANGED <<mask, online>> BY <1>3 DEF LoadStack
  <2> HIDE DEF r
  <2>6. Fits(c, r) BY <1>1, <1>2, <2>1, <2>3, <2>4 DEF Fits, Reads
  <2> QED BY <1>1, <1>2, <2>2, <2>3, <2>5, <2>6, ApChange
<1>4. CASE LoadIndex(c)
  <2>1. ap[c].pc = "enters" /\ cpuWord = c /\ ap[c].stack = c
    BY <1>4 DEF SmpInv, Words, OwnStack, Reads, LoadIndex, ApStep
  <2> DEFINE r == [ap[c] EXCEPT !.pc = "main", !.index = cpuWord]
  <2>2. ap' = [ap EXCEPT ![c] = r] BY <1>4 DEF LoadIndex, ApStep
  <2>3. r.pc = "main" /\ r.stack = c /\ r.index = c BY <1>1, <2>1
  <2>4. r \in [pc : Reads \cup {"off", "main", "kernel", "marked", "online"},
               stack : Nat, index : Nat]
    BY <1>1, <2>1 DEF Reads
  <2>5. UNCHANGED <<mask, online>> BY <1>4 DEF LoadIndex
  <2> HIDE DEF r
  <2>6. Fits(c, r) BY <1>1, <1>2, <2>1, <2>3, <2>4 DEF Fits, Reads
  <2> QED BY <1>1, <1>2, <2>2, <2>3, <2>5, <2>6, ApChange
<1>5. CASE EnterKernel(c)
  <2>1. ap[c].pc = "main" /\ ap[c].stack = c /\ ap[c].index = c
    BY <1>5 DEF SmpInv, OwnStack, EnterKernel, ApStep
  <2> DEFINE r == [pc |-> "kernel", stack |-> c, index |-> c]
  <2>6. [ap[c] EXCEPT !.pc = "kernel"] = r BY <1>1, <2>1
  <2>2. ap' = [ap EXCEPT ![c] = r] BY <1>5, <2>6 DEF EnterKernel, ApStep
  <2>3. Fits(c, r) BY <1>1, <1>2, <2>1 DEF Fits, Reads
  <2>4. UNCHANGED <<mask, online>> BY <1>5 DEF EnterKernel
  <2>5. r.pc = "kernel" OBVIOUS
  <2> HIDE DEF r
  <2> QED BY <1>1, <1>2, <2>2, <2>3, <2>4, <2>5, ApChange
<1>6. CASE MarkOnline(c)
  <2>1. ap[c].pc = "kernel" /\ ap[c].stack = c /\ ap[c].index = c
    BY <1>6 DEF SmpInv, OwnStack, MarkOnline, ApStep
  <2> DEFINE r == [pc |-> "marked", stack |-> c, index |-> c]
  <2>6. [ap[c] EXCEPT !.pc = "marked"] = r BY <1>1, <2>1
  <2>2. ap' = [ap EXCEPT ![c] = r] BY <1>6, <2>6 DEF MarkOnline, ApStep
  <2>3. Fits(c, r) BY <1>1, <1>2, <2>1 DEF Fits, Reads
  <2>4. mask' = mask /\ online' = online \cup {c} BY <1>6, <2>1 DEF MarkOnline
  <2>5. r.pc = "marked" OBVIOUS
  <2> HIDE DEF r
  <2> QED BY <1>1, <1>2, <2>2, <2>3, <2>4, <2>5, ApChange
<1>7. CASE SetBit(c)
  <2>1. ap[c].pc = "marked" /\ ap[c].stack = c /\ ap[c].index = c /\ c \in online
    BY <1>7 DEF SmpInv, OwnStack, Marks, SetBit, ApStep
  <2> DEFINE r == [pc |-> "online", stack |-> c, index |-> c]
  <2>6. [ap[c] EXCEPT !.pc = "online"] = r BY <1>1, <2>1
  <2>2. ap' = [ap EXCEPT ![c] = r] BY <1>7, <2>6 DEF SetBit, ApStep
  <2>3. Fits(c, r) BY <1>1, <1>2, <2>1 DEF Fits, Reads
  <2>4. mask' = mask \cup {c} /\ online' = online BY <1>7, <2>1 DEF SetBit
  <2>5. r.pc = "online" OBVIOUS
  <2> HIDE DEF r
  <2> QED BY <1>1, <1>2, <2>1, <2>2, <2>3, <2>4, <2>5, ApChange
<1> QED BY <1>3, <1>4, <1>5, <1>6, <1>7

LEMMA SmpStep == SmpInv /\ [SmpNext]_smpVars => SmpInv'
<1> SUFFICES ASSUME SmpInv, [SmpNext]_smpVars PROVE SmpInv' OBVIOUS
<1>1. CASE Prepare \/ Finish \/ FirstTimeout \/ LastTimeout BY <1>1, StartKeeps
<1>2. CASE Seen BY <1>2, SeenKeeps
<1>3. CASE SendInit \/ Startup("sipi1", "wait1") \/ Startup("sipi2", "wait2")
  BY <1>3, WakeKeeps
<1>4. CASE \E c \in Others : \/ LoadStack(c) \/ LoadIndex(c) \/ EnterKernel(c)
                             \/ MarkOnline(c) \/ SetBit(c)
  BY <1>4, ApKeeps
<1>5. CASE (\E d \in {"kernel", "program"} : SwitchTo0(d)) \/ UNCHANGED smpVars
  <2>1. UNCHANGED <<bsp, stackWord, cpuWord, ap, mask, online, online_count>>
    BY <1>5 DEF SwitchTo0, smpVars
  <2>2. UNCHANGED <<SmpTypeOK, Awake, Done, Words>>
    BY <2>1 DEF SmpTypeOK, Awake, Done, Words
  <2>3. UNCHANGED <<OwnStack, Bits, Marks, Counted>>
    BY <2>1 DEF OwnStack, Bits, Marks, Counted
  <2> QED BY <2>2, <2>3 DEF SmpInv
<1> QED BY <1>1, <1>2, <1>3, <1>4, <1>5 DEF SmpNext

LEMMA SmpAlways == SmpSpec => []SmpInv
<1>1. SmpInit => SmpInv BY SmpInitInv
<1>2. SmpInv /\ [SmpNext]_smpVars => SmpInv' BY SmpStep
<1> QED BY <1>1, <1>2, PTL DEF SmpSpec

-----------------------------------------------------------------------------
\* Every processor runs on the stack and under the number that smp_init made for it,
\* however late its startup message or any of its steps is, and however many start.
THEOREM StacksOwned == SmpSpec => []OwnStack
<1>1. SmpInv => OwnStack BY DEF SmpInv
<1> QED BY <1>1, SmpAlways, PTL

\* Every processor that smp_online_count counts has marked itself online.
THEOREM CountedAreOnline == SmpSpec => []CountedRun
<1>1. SmpInv => CountedRun
  <2> SUFFICES ASSUME SmpInv, NEW c \in 1 .. online_count - 1 PROVE c \in online
    BY DEF CountedRun
  <2>1. /\ bsp.index \in Nat /\ bsp.index <= Cpus
        /\ online_count <= bsp.index /\ online_count \in Nat
    BY DEF SmpInv, SmpTypeOK, Counted
  <2>2. CASE c \in Others BY <2>1, <2>2 DEF SmpInv, Done, Marks, Others
  <2>3. CASE c \notin Others
    <3>1. c >= Cpus BY <2>3, <2>1, SmpAssumption DEF Others
    <3> QED BY <3>1, <2>1, SmpAssumption
  <2> QED BY <2>2, <2>3
<1> QED BY <1>1, SmpAlways, PTL

-----------------------------------------------------------------------------
\* Files.

File == [exists : BOOLEAN, data : Seq(Nat)]
Fd == [used : BOOLEAN, backend : {"none", "ram", "disk"},
       flags : SUBSET {"read", "write", "append"}, offset : Nat, path : Names]
FdTable == [Owners -> [1 .. FdMax -> Fd]]

FilesTypeOK ==
  /\ ram \in [Names -> File] /\ disk \in [Names -> File] /\ told \in [Names -> File]
  /\ fds \in FdTable
  /\ available \in BOOLEAN /\ ghosts \subseteq Names \ {Program}

\* What a name stands for, and what was told of it.
NameOK(r, d, t, ghost, program) ==
  /\ ~(r.exists /\ d.exists)
  /\ d.exists => available
  /\ program => r.exists
  /\ ~ghost /\ ~program => t = IF r.exists THEN Holding(r.data)
                               ELSE IF d.exists THEN Holding(d.data) ELSE Absent
  /\ ghost => (r.exists \/ d.exists) /\ (r.exists => r.data = <<>>) /\ (d.exists => d.data = <<>>)

NamesOK == \A n \in Names : NameOK(ram[n], disk[n], told[n], n \in ghosts, n = Program)

\* The file of an open descriptor is where it was found.
HeldIn(f, R, D, G) ==
  f.used => /\ f.path \notin G
            /\ \/ f.backend = "ram" /\ R[f.path].exists
               \/ f.backend = "disk" /\ D[f.path].exists

FdsHeld(T, R, D, G) == \A o \in Owners, i \in 1 .. FdMax : HeldIn(T[o][i], R, D, G)

FilesInv == FilesTypeOK /\ NamesOK /\ FdsHeld(fds, ram, disk, ghosts)

\* Writes fit a RAM file, the disk writes what it has room for, no open file is removed.
Fitting ==
  /\ FilesAssumption /\ ~OpenRemoved /\ ~DiskFails
  /\ \A d \in Payloads : Len(d) <= RamMax

FilesHyp == FilesInv /\ Fitting

FilesStep == FilesInv'

LEMMA FileFacts ==
  /\ Absent \in File /\ ~Absent.exists /\ Absent.data = <<>>
  /\ \A data : Holding(data).exists /\ Holding(data).data = data
  /\ \A data \in Seq(Nat) : Holding(data) \in File
  /\ \A f \in File : f = [exists |-> f.exists, data |-> f.data]
BY DEF File, Absent, Holding

LEMMA BackendIs ==
  ASSUME FilesHyp, NEW n \in Names
  PROVE  /\ BackendFor(n) = "none" <=> ~ram[n].exists /\ ~disk[n].exists
         /\ BackendFor(n) = "ram" <=> ram[n].exists
         /\ BackendFor(n) = "disk" <=> disk[n].exists
         /\ BackendFor(n) \in {"none", "ram", "disk"}
<1>1. NameOK(ram[n], disk[n], told[n], n \in ghosts, n = Program)
  BY DEF FilesHyp, FilesInv, NamesOK
<1> QED BY <1>1 DEF BackendFor, NameOK

LEMMA FoundData ==
  ASSUME FilesHyp, NEW n \in Names, NEW b
  PROVE  Content(b, n) \in Seq(Nat) /\ Len(Content(b, n)) \in Nat
<1>1. ram[n] \in File /\ disk[n] \in File BY DEF FilesHyp, FilesInv, FilesTypeOK
<1>2. ram[n].data \in Seq(Nat) /\ disk[n].data \in Seq(Nat) BY <1>1 DEF File
<1> QED BY <1>2, LenProperties DEF Content

\* The table of descriptors gets one, if there is room.
LEMMA DescriptorHeld ==
  ASSUME NEW o \in Owners, NEW n \in Names, NEW flags \in Modes, NEW backend \in {"ram", "disk"},
         NEW size \in Nat, fds \in FdTable, Descriptor(o, n, flags, backend, size),
         NEW R, NEW D, NEW G,
         FreeFds(o) # {} => n \notin G /\ (backend = "ram" => R[n].exists) /\ (backend = "disk" => D[n].exists),
         FdsHeld(fds, R, D, G)
  PROVE  fds' \in FdTable /\ FdsHeld(fds', R, D, G)
<1> DEFINE k == Lowest(FreeFds(o))
           r == [used |-> TRUE, backend |-> backend, flags |-> flags, path |-> n,
                 offset |-> IF "append" \in flags THEN size ELSE 0]
<1>1. CASE FreeFds(o) = {} BY <1>1 DEF Descriptor
<1>2. CASE FreeFds(o) # {}
  <2>1. r \in Fd /\ HeldIn(r, R, D, G) BY <1>2 DEF Fd, HeldIn, Modes
  <2>2. fds' = [fds EXCEPT ![o][k] = r] BY <1>2 DEF Descriptor
  <2> HIDE DEF k, r
  <2>3. fds' \in FdTable BY <2>1, <2>2 DEF FdTable
  <2>4. \A p \in Owners, i \in 1 .. FdMax :
          fds'[p][i] = IF p = o /\ i = k THEN r ELSE fds[p][i]
    BY <2>2 DEF FdTable
  <2> QED BY <2>1, <2>3, <2>4 DEF FdsHeld
<1> QED BY <1>1, <1>2

\* A step that touches the files of one name.
LEMMA OneName ==
  ASSUME FilesHyp, NEW n \in Names, UNCHANGED available,
         \A m \in Names : m # n => /\ ram'[m] = ram[m] /\ disk'[m] = disk[m]
                                   /\ told'[m] = told[m] /\ (m \in ghosts' <=> m \in ghosts),
         NameOK(ram'[n], disk'[n], told'[n], n \in ghosts', n = Program)
  PROVE  NamesOK'
<1> SUFFICES ASSUME NEW m \in Names
             PROVE  NameOK(ram'[m], disk'[m], told'[m], m \in ghosts', m = Program)
  BY DEF NamesOK, NameOK
<1>1. CASE m = n BY <1>1 DEF NameOK
<1>2. CASE m # n
  <2>1. NameOK(ram[m], disk[m], told[m], m \in ghosts, m = Program)
    BY DEF FilesHyp, FilesInv, NamesOK
  <2> QED BY <1>2, <2>1 DEF NameOK
<1> QED BY <1>1, <1>2

LEMMA FilesFacts ==
  ASSUME FilesHyp
  PROVE  /\ FilesTypeOK /\ NamesOK /\ FdsHeld(fds, ram, disk, ghosts) /\ Fitting
         /\ RamMax \in Nat /\ Program \in Names /\ fds \in FdTable
         /\ ram \in [Names -> File] /\ disk \in [Names -> File] /\ told \in [Names -> File]
         /\ ghosts \subseteq Names \ {Program} /\ available \in BOOLEAN
BY DEF FilesHyp, FilesInv, FilesTypeOK, Fitting, FilesAssumption

LEMMA OpenFoundFiles ==
  ASSUME FilesHyp, NEW o \in Owners, NEW n \in Names, NEW flags \in Modes,
         OpenFound(o, n, flags)
  PROVE  FilesStep
<1> DEFINE b == BackendFor(n)
           size == Len(Content(b, n))
           t == Holding(<<>>)
<1>1. NameOK(ram[n], disk[n], told[n], n \in ghosts, n = Program)
  BY FilesFacts DEF NamesOK
<1>2. b \in {"ram", "disk"} /\ (b = "ram" => ram[n].exists) /\ (b = "disk" => disk[n].exists)
      /\ size \in Nat
  BY BackendIs, FoundData DEF OpenFound
<1>3. Descriptor(o, n, flags, b, size) BY DEF OpenFound
<1>4. t \in File /\ t.exists /\ t.data = <<>>
  <2>1. <<>> \in Seq(Nat) BY EmptySeq
  <2> QED BY <2>1, FileFacts
<1>5. UNCHANGED <<available, ram, disk>> BY DEF OpenFound
<1>6. \/ FreeFds(o) # {} /\ n \in ghosts /\ told' = [told EXCEPT ![n] = t] /\ ghosts' = ghosts \ {n}
      \/ ~(FreeFds(o) # {} /\ n \in ghosts) /\ UNCHANGED <<told, ghosts>>
  BY DEF OpenFound
<1>7. ghosts' \subseteq ghosts /\ (FreeFds(o) # {} => n \notin ghosts') BY <1>6
<1>8. t = Holding(<<>>) OBVIOUS
<1> HIDE DEF b, size, t
<1>9. FdsHeld(fds, ram, disk, ghosts') BY <1>7, FilesFacts DEF FdsHeld, HeldIn
<1>10. fds' \in FdTable /\ FdsHeld(fds', ram, disk, ghosts')
  BY <1>2, <1>3, <1>7, <1>9, FilesFacts, DescriptorHeld
<1>11. told' \in [Names -> File] BY <1>4, <1>6, FilesFacts
<1>12. FilesTypeOK' BY <1>5, <1>7, <1>10, <1>11, FilesFacts DEF FilesTypeOK
<1>13. \A m \in Names : m # n => told'[m] = told[m] /\ (m \in ghosts' <=> m \in ghosts)
  BY <1>6, FilesFacts
<1>14. NameOK(ram'[n], disk'[n], told'[n], n \in ghosts', n = Program)
  <2>1. CASE FreeFds(o) # {} /\ n \in ghosts
    <3>1. told'[n] = t /\ n \notin ghosts' /\ n # Program BY <1>6, <2>1, FilesFacts
    <3>2. \A e : e.data = <<>> => Holding(e.data) = t BY <1>8
    <3> QED BY <1>1, <1>5, <2>1, <3>1, <3>2 DEF NameOK
  <2>2. CASE ~(FreeFds(o) # {} /\ n \in ghosts) BY <1>1, <1>5, <1>6, <2>2 DEF NameOK
  <2> QED BY <2>1, <2>2
<1>15. NamesOK' BY <1>5, <1>13, <1>14, OneName
<1> QED BY <1>5, <1>10, <1>12, <1>15 DEF FilesStep, FilesInv

\* What ramfs_write makes of data that fits.
LEMMA InRamIs ==
  ASSUME FilesHyp, NEW n \in Names, NEW data \in Seq(Nat), Len(data) <= RamMax
  PROVE  InRam(n, data) = [ram EXCEPT ![n] = Holding(data)]
<1>1. Len(data) \in Nat /\ RamMax \in Nat BY FilesFacts, LenProperties
<1>2. (IF Len(data) < RamMax THEN Len(data) ELSE RamMax) = Len(data) BY <1>1
<1>3. SubSeq(data, 1, Len(data)) = data BY SubSeqFull
<1> QED BY <1>2, <1>3 DEF InRam

\* The files of one of the two file systems get a file with data under n, and are told of it.
LEMMA OneFile ==
  ASSUME FilesHyp, NEW n \in Names, NEW r \in File,
         NEW R, R \in [Names -> File],
         NEW Q, Q = [R EXCEPT ![n] = r]
  PROVE  Q \in [Names -> File] /\ Q[n] = r /\ \A m \in Names : m # n => Q[m] = R[m]
OBVIOUS

LEMMA OpenNewFiles ==
  ASSUME FilesHyp, NEW o \in Owners, NEW n \in Names, NEW flags \in Modes, OpenNew(o, n, flags)
  PROVE  FilesStep
<1> DEFINE t == Holding(<<>>)
<1>0. t \in File /\ t.exists /\ t.data = <<>> /\ t = Holding(t.data)
  <2>1. <<>> \in Seq(Nat) BY EmptySeq
  <2> QED BY <2>1, FileFacts
<1>1. ~ram[n].exists /\ ~disk[n].exists /\ n # Program
  <2>1. NameOK(ram[n], disk[n], told[n], n \in ghosts, n = Program) BY FilesFacts DEF NamesOK
  <2> QED BY <2>1, BackendIs DEF OpenNew, NameOK
<1>2. InRam(n, <<>>) = [ram EXCEPT ![n] = t]
  <2> DEFINE none == <<>>
  <2>1. none \in Seq(Nat) /\ Len(none) = 0 BY EmptySeq
  <2>2. t = Holding(none) OBVIOUS
  <2> HIDE DEF none
  <2>3. Len(none) <= RamMax BY <2>1, FilesFacts
  <2>4. InRam(n, none) = [ram EXCEPT ![n] = Holding(none)] BY <2>1, <2>3, InRamIs
  <2> QED BY <2>2, <2>4 DEF none
<1>3. DiskWith(n, <<>>) = [disk EXCEPT ![n] = t] BY DEF DiskWith
<1>4. PICK b \in {"ram", "disk"} :
        /\ Made(o, n, flags, b)
        /\ b = "disk" => available /\ disk' = [disk EXCEPT ![n] = t] /\ UNCHANGED ram
        /\ b = "ram" => ram' = [ram EXCEPT ![n] = t] /\ UNCHANGED disk
  BY <1>2, <1>3, FilesFacts DEF OpenNew, DiskTakes, Fitting
<1>5. /\ Descriptor(o, n, flags, b, 0) /\ UNCHANGED available
      /\ told' = [told EXCEPT ![n] = IF FreeFds(o) = {} THEN @ ELSE t]
      /\ ghosts' = IF FreeFds(o) = {} THEN ghosts \cup {n} ELSE ghosts
  BY <1>4 DEF Made
<1>6. n \notin ghosts
  <2>1. NameOK(ram[n], disk[n], told[n], n \in ghosts, n = Program) BY FilesFacts DEF NamesOK
  <2> QED BY <1>1, <2>1 DEF NameOK
<1> HIDE DEF t
<1>7. /\ ram' \in [Names -> File] /\ disk' \in [Names -> File]
      /\ \A m \in Names : m # n => ram'[m] = ram[m] /\ disk'[m] = disk[m]
      /\ b = "ram" => ram'[n] = t /\ disk'[n] = disk[n]
      /\ b = "disk" => disk'[n] = t /\ ram'[n] = ram[n] /\ available
  BY <1>0, <1>4, FilesFacts
<1>8. /\ told' \in [Names -> File] /\ \A m \in Names : m # n => told'[m] = told[m]
      /\ FreeFds(o) # {} => told'[n] = t
  BY <1>0, <1>5, FilesFacts
<1>9. FdsHeld(fds, ram', disk', ghosts')
  <2> SUFFICES ASSUME NEW p \in Owners, NEW i \in 1 .. FdMax, fds[p][i].used
               PROVE  HeldIn(fds[p][i], ram', disk', ghosts')
    BY DEF FdsHeld, HeldIn
  <2> DEFINE f == fds[p][i]
  <2>1. f.used /\ HeldIn(f, ram, disk, ghosts) BY FilesFacts DEF FdsHeld
  <2>2. f.path \in Names
    <3>1. f \in Fd BY FilesFacts DEF FdTable
    <3> QED BY <3>1 DEF Fd
  <2> HIDE DEF f
  <2>3. f.path # n BY <1>1, <2>1 DEF HeldIn
  <2>4. HeldIn(f, ram', disk', ghosts') BY <1>5, <1>7, <2>1, <2>2, <2>3 DEF HeldIn
  <2> QED BY <2>4 DEF f
<1>10. fds' \in FdTable /\ FdsHeld(fds', ram', disk', ghosts')
  <2>1. FreeFds(o) # {} => n \notin ghosts' /\ (b = "ram" => ram'[n].exists) /\ (b = "disk" => disk'[n].exists)
    BY <1>0, <1>5, <1>6, <1>7
  <2> QED BY <1>5, <1>9, <2>1, FilesFacts, DescriptorHeld
<1>11. NameOK(ram'[n], disk'[n], told'[n], n \in ghosts', n = Program)
  BY <1>0, <1>1, <1>5, <1>7, <1>8 DEF NameOK
<1>12. NamesOK' BY <1>5, <1>7, <1>8, <1>11, OneName
<1>13. FilesTypeOK' BY <1>1, <1>5, <1>7, <1>8, <1>10, FilesFacts DEF FilesTypeOK
<1> QED BY <1>10, <1>12, <1>13 DEF FilesStep, FilesInv

PutFd(T, o, i, r) == [T EXCEPT ![o][i] = r]

LEMMA OneFd ==
  ASSUME NEW o \in Owners, NEW i \in 1 .. FdMax, NEW r \in Fd,
         fds \in FdTable, fds' = PutFd(fds, o, i, r)
  PROVE  /\ fds' \in FdTable
         /\ \A p \in Owners, j \in 1 .. FdMax :
              fds'[p][j] = IF p = o /\ j = i THEN r ELSE fds[p][j]
BY DEF FdTable, PutFd

LEMMA FdIs ==
  ASSUME FilesHyp, NEW o \in Owners, NEW i \in 1 .. FdMax
  PROVE  /\ fds[o][i] \in Fd /\ HeldIn(fds[o][i], ram, disk, ghosts)
         /\ fds[o][i].path \in Names /\ fds[o][i].offset \in Nat
         /\ fds[o][i].flags \in SUBSET {"read", "write", "append"}
<1>1. fds[o][i] \in Fd BY FilesFacts DEF FdTable
<1>2. HeldIn(fds[o][i], ram, disk, ghosts) BY FilesFacts DEF FdsHeld
<1> QED BY <1>1, <1>2 DEF Fd

\* A step that changes descriptors alone.
LEMMA SameFiles ==
  ASSUME FilesHyp, UNCHANGED <<available, ram, disk, told, ghosts>>,
         fds' \in FdTable, FdsHeld(fds', ram, disk, ghosts)
  PROVE  FilesStep
<1>1. FilesTypeOK' BY FilesFacts DEF FilesTypeOK
<1>2. NamesOK' BY FilesFacts DEF NamesOK, NameOK
<1> QED BY <1>1, <1>2 DEF FilesStep, FilesInv

LEMMA CloseFiles ==
  ASSUME FilesHyp, NEW o \in Owners, NEW i \in 1 .. FdMax, Close(o, i)
  PROVE  FilesStep
<1> DEFINE r == Closed
<1>1. r \in Fd /\ ~r.used BY FilesFacts DEF Closed, Fd
<1>2. fds' = PutFd(fds, o, i, r) BY DEF Close, PutFd
<1> HIDE DEF r
<1>3. fds \in FdTable BY FilesFacts
<1>4. /\ fds' \in FdTable
      /\ \A p \in Owners, j \in 1 .. FdMax :
           fds'[p][j] = IF p = o /\ j = i THEN r ELSE fds[p][j]
  BY <1>1, <1>2, <1>3, OneFd
<1>5. HeldIn(r, ram, disk, ghosts) BY <1>1 DEF HeldIn
<1>6. FdsHeld(fds', ram, disk, ghosts) BY <1>4, <1>5, FilesFacts DEF FdsHeld
<1>7. UNCHANGED <<available, ram, disk, told, ghosts>> BY DEF Close
<1> QED BY <1>4, <1>6, <1>7, SameFiles

LEMMA ForkFiles ==
  ASSUME FilesHyp, NEW o \in Owners, NEW child \in Owners, Fork(o, child)
  PROVE  FilesStep
<1>1. fds' = [fds EXCEPT ![child] = fds[o]] BY DEF Fork
<1>2. fds' \in FdTable BY <1>1, FilesFacts DEF FdTable
<1>3. \A p \in Owners : fds'[p] = IF p = child THEN fds[o] ELSE fds[p]
  BY <1>1, FilesFacts DEF FdTable
<1>4. FdsHeld(fds', ram, disk, ghosts) BY <1>3, FilesFacts DEF FdsHeld
<1>5. UNCHANGED <<available, ram, disk, told, ghosts>> BY DEF Fork
<1> QED BY <1>2, <1>4, <1>5, SameFiles

LEMMA ReadFiles ==
  ASSUME FilesHyp, NEW o \in Owners, NEW i \in 1 .. FdMax, NEW length \in 1 .. DiskMax,
         ReadSlot(o, i, length)
  PROVE  FilesStep
<1> DEFINE f == fds[o][i]
           size == Len(Content(f.backend, f.path))
           more == IF length < size - f.offset THEN length ELSE size - f.offset
           r == [f EXCEPT !.offset = f.offset + more]
<1>1. f \in Fd /\ f.path \in Names /\ f.offset \in Nat /\ HeldIn(f, ram, disk, ghosts)
  BY FdIs
<1>2. size \in Nat BY <1>1, FoundData
<1>3. f.offset < size BY DEF ReadSlot
<1>4. f.offset + more \in Nat BY <1>1, <1>2, <1>3
<1>5. fds' = [fds EXCEPT ![o][i].offset = @ + more] BY DEF ReadSlot
<1> HIDE DEF more
<1>6. r \in Fd BY <1>1, <1>4 DEF Fd
<1>7. r.used = f.used /\ r.path = f.path /\ r.backend = f.backend BY <1>1 DEF Fd
<1>8. fds' = PutFd(fds, o, i, r) BY <1>5, FilesFacts DEF FdTable, PutFd
<1> HIDE DEF r, f, size
<1>9. fds \in FdTable BY FilesFacts
<1>10. /\ fds' \in FdTable
       /\ \A p \in Owners, j \in 1 .. FdMax :
            fds'[p][j] = IF p = o /\ j = i THEN r ELSE fds[p][j]
  BY <1>6, <1>8, <1>9, OneFd
<1>11. HeldIn(r, ram, disk, ghosts) BY <1>1, <1>7 DEF HeldIn
<1>12. FdsHeld(fds', ram, disk, ghosts) BY <1>10, <1>11, FilesFacts DEF FdsHeld
<1>13. UNCHANGED <<available, ram, disk, told, ghosts>> BY DEF ReadSlot
<1> QED BY <1>10, <1>12, <1>13, SameFiles

LEMMA RemoveFiles ==
  ASSUME FilesHyp, NEW n \in Names, RemoveFile(n)
  PROVE  FilesStep
<1> DEFINE gone == Absent
<1>1. gone \in File /\ ~gone.exists BY FileFacts
<1>2. /\ ~Named(n) /\ n # Program /\ UNCHANGED <<available, fds>>
      /\ told' = [told EXCEPT ![n] = gone] /\ ghosts' = ghosts \ {n}
      /\ \/ BackendFor(n) = "ram" /\ ram' = [ram EXCEPT ![n] = gone] /\ UNCHANGED disk
         \/ BackendFor(n) = "disk" /\ disk' = [disk EXCEPT ![n] = gone] /\ UNCHANGED ram
  BY BackendIs, FilesFacts DEF RemoveFile, Fitting
<1>3. NameOK(ram[n], disk[n], told[n], n \in ghosts, n = Program) BY FilesFacts DEF NamesOK
<1>4. gone = Absent OBVIOUS
<1> HIDE DEF gone
<1>5. /\ ram' \in [Names -> File] /\ disk' \in [Names -> File] /\ told' \in [Names -> File]
      /\ \A m \in Names : m # n => ram'[m] = ram[m] /\ disk'[m] = disk[m] /\ told'[m] = told[m]
      /\ told'[n] = gone
  BY <1>1, <1>2, FilesFacts
<1>6. ~ram'[n].exists /\ ~disk'[n].exists
  <2>1. ram[n].exists => ram' = [ram EXCEPT ![n] = gone] /\ disk' = disk
    BY <1>2, BackendIs
  <2>2. ~ram[n].exists => disk' = [disk EXCEPT ![n] = gone] /\ ram' = ram
    BY <1>2, BackendIs
  <2>3. ram[n].exists => ram'[n] = gone /\ ~disk[n].exists BY <2>1, <1>1, <1>3, FilesFacts DEF NameOK
  <2>4. ~ram[n].exists => disk'[n] = gone BY <2>2, <1>1, FilesFacts
  <2> QED BY <2>1, <2>2, <2>3, <2>4, <1>1
<1>7. NameOK(ram'[n], disk'[n], told'[n], n \in ghosts', n = Program)
  BY <1>2, <1>4, <1>5, <1>6 DEF NameOK
<1>8. NamesOK' BY <1>2, <1>5, <1>7, OneName
<1>9. FdsHeld(fds, ram', disk', ghosts')
  <2> SUFFICES ASSUME NEW p \in Owners, NEW i \in 1 .. FdMax, fds[p][i].used
               PROVE  HeldIn(fds[p][i], ram', disk', ghosts')
    BY DEF FdsHeld, HeldIn
  <2> DEFINE f == fds[p][i]
  <2>1. f.used /\ f.path \in Names /\ HeldIn(f, ram, disk, ghosts) BY FdIs
  <2>2. f.path # n BY <1>2 DEF Named
  <2> HIDE DEF f
  <2>3. HeldIn(f, ram', disk', ghosts') BY <1>2, <1>5, <2>1, <2>2 DEF HeldIn
  <2> QED BY <2>3 DEF f
<1>10. FilesTypeOK' BY <1>2, <1>5, FilesFacts DEF FilesTypeOK
<1> QED BY <1>2, <1>8, <1>9, <1>10 DEF FilesStep, FilesInv

\* What a write puts under the name, in either file system, is what it tells.
LEMMA WholeIs ==
  ASSUME FilesHyp, NEW o \in Owners, NEW i \in 1 .. FdMax, NEW data \in Payloads, WriteSlot(o, i, data),
         NEW f, f = fds[o][i],
         NEW whole, whole = IF "append" \in f.flags THEN Whole(f, data) ELSE data
  PROVE  /\ whole \in Seq(Nat) /\ Len(whole) \in Nat /\ f.path # Program /\ f.path \notin ghosts
         /\ \/ f.backend = "ram" /\ ram' = [ram EXCEPT ![f.path] = Holding(whole)] /\ UNCHANGED disk
            \/ f.backend = "disk" /\ disk' = [disk EXCEPT ![f.path] = Holding(whole)] /\ UNCHANGED ram
         /\ told' = [told EXCEPT ![f.path] = Holding(whole)]
         /\ (f.backend = "ram" /\ ram[f.path].exists) \/ (f.backend = "disk" /\ disk[f.path].exists)
<1> DEFINE n == f.path
           old == Content(f.backend, n)
<1>1. /\ f.used /\ Stored(f, whole)
      /\ "append" \in f.flags => Len(data) + Len(old) <= LengthMax(f.backend)
      /\ told' = [told EXCEPT ![n] = Holding(IF "append" \in f.flags THEN @.data \o data ELSE data)]
  BY DEF WriteSlot
<1>2. n \in Names /\ HeldIn(f, ram, disk, ghosts) BY FdIs
<1>3. \/ f.backend = "ram" /\ ram[n].exists
      \/ f.backend = "disk" /\ disk[n].exists
  BY <1>1, <1>2 DEF HeldIn
<1>4. n \notin ghosts BY <1>1, <1>2 DEF HeldIn
<1>5. NameOK(ram[n], disk[n], told[n], n \in ghosts, n = Program) BY <1>2, FilesFacts DEF NamesOK
<1>6. n # Program
  <2>1. CASE f.backend = "ram" BY <1>1, <2>1 DEF Stored, RamTakes
  <2>2. CASE f.backend = "disk" BY <1>3, <1>5, <2>2 DEF NameOK
  <2> QED BY <1>3, <2>1, <2>2
<1>7. data \in Seq(Nat) /\ Len(data) \in Nat /\ Len(data) <= RamMax
  <2>1. data \in Seq(Nat) /\ Len(data) <= RamMax BY FilesFacts DEF Fitting, FilesAssumption
  <2> QED BY <2>1, LenProperties
<1>8. old \in Seq(Nat) /\ Len(old) \in Nat BY <1>2, FoundData
<1>9. told[n].data = old
  <2>1. CASE f.backend = "ram"
    <3>1. told[n] = Holding(ram[n].data) BY <1>3, <1>4, <1>5, <1>6, <2>1 DEF NameOK
    <3> QED BY <2>1, <3>1, FileFacts DEF Content
  <2>2. CASE f.backend = "disk"
    <3>1. told[n] = Holding(disk[n].data) BY <1>3, <1>4, <1>5, <1>6, <2>2 DEF NameOK
    <3> QED BY <2>2, <3>1, FileFacts DEF Content
  <2> QED BY <1>3, <2>1, <2>2
<1>10. whole = IF "append" \in f.flags THEN old \o data ELSE data BY DEF Whole
<1> HIDE DEF old
<1>11. whole \in Seq(Nat) /\ Len(whole) \in Nat
       /\ ("append" \in f.flags => Len(whole) = Len(old) + Len(data))
  <2>1. old \o data \in Seq(Nat) /\ Len(old \o data) = Len(old) + Len(data)
    BY <1>7, <1>8, ConcatProperties
  <2>2. Len(old) + Len(data) \in Nat BY <1>7, <1>8
  <2>3. CASE "append" \in f.flags BY <1>10, <2>1, <2>2, <2>3
  <2>4. CASE ~("append" \in f.flags) BY <1>7, <1>10, <2>4
  <2> QED BY <2>3, <2>4
<1>12. told' = [told EXCEPT ![n] = Holding(whole)]
  BY <1>1, <1>2, <1>9, <1>10, FilesFacts
<1>13. f.backend = "ram" => ram' = [ram EXCEPT ![n] = Holding(whole)] /\ UNCHANGED disk
  <2> SUFFICES ASSUME f.backend = "ram" PROVE ram' = [ram EXCEPT ![n] = Holding(whole)] /\ UNCHANGED disk
    OBVIOUS
  <2>1. Len(whole) <= RamMax
    <3>1. "append" \in f.flags => Len(data) + Len(old) <= RamMax BY <1>1 DEF LengthMax
    <3> QED BY <1>7, <1>8, <1>10, <1>11, <3>1
  <2>2. InRam(n, whole) = [ram EXCEPT ![n] = Holding(whole)] BY <1>2, <1>11, <2>1, InRamIs
  <2> QED BY <1>1, <2>2 DEF Stored
<1>14. f.backend = "disk" => disk' = [disk EXCEPT ![n] = Holding(whole)] /\ UNCHANGED ram
  BY <1>1 DEF Stored, DiskWith
<1> QED BY <1>3, <1>4, <1>6, <1>11, <1>12, <1>13, <1>14

LEMMA WriteFiles ==
  ASSUME FilesHyp, NEW o \in Owners, NEW i \in 1 .. FdMax, NEW data \in Payloads, WriteSlot(o, i, data)
  PROVE  FilesStep
<1> DEFINE f == fds[o][i]
           n == f.path
           whole == IF "append" \in f.flags THEN Whole(f, data) ELSE data
           to == IF "append" \in f.flags THEN Len(whole) ELSE f.offset + Len(data)
           r == [f EXCEPT !.offset = to]
           w == Holding(whole)
<1>1. f \in Fd /\ n \in Names /\ f.offset \in Nat /\ HeldIn(f, ram, disk, ghosts)
  BY FdIs
<1>2. f.used BY DEF WriteSlot
<1>3. /\ whole \in Seq(Nat) /\ Len(whole) \in Nat /\ n # Program /\ n \notin ghosts
      /\ \/ f.backend = "ram" /\ ram' = [ram EXCEPT ![n] = w] /\ UNCHANGED disk
         \/ f.backend = "disk" /\ disk' = [disk EXCEPT ![n] = w] /\ UNCHANGED ram
      /\ told' = [told EXCEPT ![n] = w]
      /\ (f.backend = "ram" /\ ram[n].exists) \/ (f.backend = "disk" /\ disk[n].exists)
  BY WholeIs
<1>4. Len(data) \in Nat
  <2>1. data \in Seq(Nat) BY FilesFacts DEF Fitting, FilesAssumption
  <2> QED BY <2>1, LenProperties
<1>5. to \in Nat BY <1>1, <1>3, <1>4
<1>6. w \in File /\ w.exists /\ w = Holding(w.data) BY <1>3, FileFacts
<1>7. fds' = [fds EXCEPT ![o][i].offset = IF "append" \in f.flags THEN Len(whole) ELSE @ + Len(data)]
      /\ UNCHANGED <<available, ghosts>>
  BY DEF WriteSlot
<1> HIDE DEF whole
<1>8. fds' = PutFd(fds, o, i, r) BY <1>7, FilesFacts DEF FdTable, PutFd
<1> HIDE DEF to
<1>9. r \in Fd /\ r.used = f.used /\ r.path = f.path /\ r.backend = f.backend
  BY <1>1, <1>5 DEF Fd
<1>10. fds \in FdTable BY FilesFacts
<1> HIDE DEF r, f, n, w
<1>11. /\ fds' \in FdTable
       /\ \A p \in Owners, j \in 1 .. FdMax :
            fds'[p][j] = IF p = o /\ j = i THEN r ELSE fds[p][j]
  BY <1>8, <1>9, <1>10, OneFd DEF f
<1>12. /\ ram' \in [Names -> File] /\ disk' \in [Names -> File] /\ told' \in [Names -> File]
       /\ \A m \in Names : m # n => ram'[m] = ram[m] /\ disk'[m] = disk[m] /\ told'[m] = told[m]
       /\ told'[n] = w
       /\ f.backend = "ram" => ram'[n] = w /\ disk'[n] = disk[n]
       /\ f.backend = "disk" => disk'[n] = w /\ ram'[n] = ram[n]
  BY <1>1, <1>3, <1>6, FilesFacts
<1>13. NameOK(ram[n], disk[n], told[n], n \in ghosts, n = Program) BY <1>1, FilesFacts DEF NamesOK
<1>14. NameOK(ram'[n], disk'[n], told'[n], n \in ghosts', n = Program)
  <2>1. CASE f.backend = "ram" BY <1>3, <1>6, <1>7, <1>12, <1>13, <2>1 DEF NameOK
  <2>2. CASE f.backend = "disk" BY <1>3, <1>6, <1>7, <1>12, <1>13, <2>2 DEF NameOK
  <2> QED BY <1>3, <2>1, <2>2
<1>15. NamesOK' BY <1>1, <1>7, <1>12, <1>14, OneName
<1>16. \A m \in Names : (ram[m].exists => ram'[m].exists) /\ (disk[m].exists => disk'[m].exists)
  BY <1>3, <1>6, <1>12
<1>17. FdsHeld(fds', ram', disk', ghosts')
  <2> SUFFICES ASSUME NEW p \in Owners, NEW j \in 1 .. FdMax
               PROVE  HeldIn(fds'[p][j], ram', disk', ghosts')
    BY DEF FdsHeld
  <2> DEFINE g == fds[p][j]
             h == fds'[p][j]
  <2>1. h.used = g.used /\ h.path = g.path /\ h.backend = g.backend BY <1>9, <1>11 DEF f
  <2>2. g.path \in Names /\ HeldIn(g, ram, disk, ghosts) BY FdIs
  <2> HIDE DEF g, h
  <2>3. HeldIn(h, ram', disk', ghosts') BY <1>7, <1>16, <2>1, <2>2 DEF HeldIn
  <2> QED BY <2>3 DEF h
<1>18. FilesTypeOK' BY <1>7, <1>11, <1>12, FilesFacts DEF FilesTypeOK
<1> QED BY <1>15, <1>17, <1>18 DEF FilesStep, FilesInv

LEMMA FilesNextStep == ASSUME FilesHyp, [FilesNext]_filesVars PROVE FilesStep
<1>1. CASE UNCHANGED filesVars
  <2>1. UNCHANGED <<available, ram, disk, told, ghosts>> /\ fds' = fds BY <1>1 DEF filesVars
  <2> QED BY <2>1, FilesFacts, SameFiles
<1>2. ASSUME NEW o \in Owners, NEW n \in Names, NEW flags \in Modes, OpenFound(o, n, flags)
      PROVE  FilesStep
  BY <1>2, OpenFoundFiles
<1>3. ASSUME NEW o \in Owners, NEW n \in Names, NEW flags \in Modes, OpenNew(o, n, flags)
      PROVE  FilesStep
  BY <1>3, OpenNewFiles
<1>4. ASSUME NEW o \in Owners, NEW i \in 1 .. FdMax, Close(o, i) PROVE FilesStep
  BY <1>4, CloseFiles
<1>5. ASSUME NEW o \in Owners, NEW i \in 1 .. FdMax, NEW length \in 1 .. DiskMax, ReadSlot(o, i, length)
      PROVE  FilesStep
  BY <1>5, ReadFiles
<1>6. ASSUME NEW o \in Owners, NEW i \in 1 .. FdMax, NEW data \in Payloads, WriteSlot(o, i, data)
      PROVE  FilesStep
  BY <1>6, WriteFiles
<1>7. ASSUME NEW o \in Owners, NEW child \in Owners, Fork(o, child) PROVE FilesStep
  BY <1>7, ForkFiles
<1>8. ASSUME NEW n \in Names, RemoveFile(n) PROVE FilesStep
  BY <1>8, RemoveFiles
<1> QED BY <1>1, <1>2, <1>3, <1>4, <1>5, <1>6, <1>7, <1>8 DEF FilesNext

LEMMA FilesInitially == ASSUME Fitting, FilesInit PROVE FilesInv
<1> DEFINE empty == Holding(<<>>)
           none == Absent
           r == Closed
<1>1. Program \in Names /\ Shipped \subseteq Names \ {Program} BY DEF Fitting, FilesAssumption
<1>2. empty \in File /\ empty.exists /\ empty = Holding(empty.data)
  <2>1. <<>> \in Seq(Nat) BY EmptySeq
  <2> QED BY <2>1, FileFacts
<1>3. none \in File /\ ~none.exists /\ none = Absent BY FileFacts
<1>4. r \in Fd /\ ~r.used BY <1>1 DEF Closed, Fd
<1>5. /\ available \in BOOLEAN /\ disk = [n \in Names |-> none] /\ told = ram /\ ghosts = {}
      /\ ram = [n \in Names |-> IF n \in Shipped \cup {Program} THEN empty ELSE none]
      /\ fds = [o \in Owners |-> [i \in 1 .. FdMax |-> r]]
  BY DEF FilesInit
<1> HIDE DEF empty, none, r
<1>6. FilesTypeOK BY <1>2, <1>3, <1>4, <1>5 DEF FilesTypeOK, FdTable
<1>7. NamesOK
  <2> SUFFICES ASSUME NEW n \in Names
               PROVE  NameOK(ram[n], disk[n], told[n], n \in ghosts, n = Program)
    BY DEF NamesOK
  <2>1. disk[n] = none /\ told[n] = ram[n] /\ n \notin ghosts BY <1>5
  <2>2. ram[n] = IF n \in Shipped \cup {Program} THEN empty ELSE none BY <1>5
  <2>3. CASE n \in Shipped \cup {Program} BY <1>2, <1>3, <2>1, <2>2, <2>3 DEF NameOK
  <2>4. CASE n \notin Shipped \cup {Program} BY <1>3, <2>1, <2>2, <2>4 DEF NameOK
  <2> QED BY <2>3, <2>4
<1>8. FdsHeld(fds, ram, disk, ghosts) BY <1>4, <1>5 DEF FdsHeld, HeldIn
<1> QED BY <1>6, <1>7, <1>8 DEF FilesInv

LEMMA FilesKeptHolds == ASSUME FilesHyp PROVE FilesKept
<1>1. ASSUME NEW n \in Names PROVE ~(ram[n].exists /\ disk[n].exists)
  BY FilesFacts DEF NamesOK, NameOK
<1>2. ASSUME NEW n \in Names \ (ghosts \cup {Program}) PROVE Visible(n) = told[n]
  <2>1. NameOK(ram[n], disk[n], told[n], n \in ghosts, n = Program) BY FilesFacts DEF NamesOK
  <2>2. CASE ram[n].exists
    <3>1. told[n] = Holding(ram[n].data) BY <1>2, <2>1, <2>2 DEF NameOK
    <3>2. Visible(n) = Holding(Content("ram", n)) BY <2>2 DEF Visible, BackendFor
    <3> QED BY <3>1, <3>2 DEF Content
  <2>3. CASE ~ram[n].exists /\ disk[n].exists
    <3>1. told[n] = Holding(disk[n].data) /\ available BY <1>2, <2>1, <2>3 DEF NameOK
    <3>2. Visible(n) = Holding(Content("disk", n)) BY <2>3, <3>1 DEF Visible, BackendFor
    <3> QED BY <3>1, <3>2 DEF Content
  <2>4. CASE ~ram[n].exists /\ ~disk[n].exists
    <3>1. told[n] = Absent BY <1>2, <2>1, <2>4 DEF NameOK
    <3> QED BY <2>4, <3>1 DEF Visible, BackendFor
  <2> QED BY <2>2, <2>3, <2>4
<1> QED BY <1>1, <1>2 DEF FilesKept, Honest, OneHome

\* The VFS keeps its word: what a name stands for is what the calls that returned success
\* put there, and it stands for it in one of the two file systems only, whatever the calls
\* (vfs_open_for_process, write_slot, vfs_remove), the descriptors that share a name, the
\* processes that inherit them, and whether there is a disk.  Fitting sets aside the three
\* things that break it in the code: an open file that is removed, a disk write that fails
\* when a file is made, and a write too long for a RAM file, which is cut.
THEOREM FilesAreKept == Fitting => (FilesSpec => []FilesKept)
<1> SUFFICES ASSUME Fitting PROVE FilesSpec => []FilesKept
  OBVIOUS
<1>1. FilesInit => FilesInv BY FilesInitially
<1>2. FilesInv /\ [FilesNext]_filesVars => FilesInv' BY FilesNextStep DEF FilesHyp, FilesStep
<1>3. FilesInv => FilesKept BY FilesKeptHolds DEF FilesHyp
<1> QED BY <1>1, <1>2, <1>3, PTL DEF FilesSpec
=============================================================================
