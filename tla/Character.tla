----------------------------- MODULE Character ------------------------------
(***************************************************************************)
(* The character of one user (CharacterService.updateCharacter): rows of   *)
(* user_character, of which one is meant to be current, and, for each, the *)
(* options chosen (user_character_attributes).  The old choice is deleted  *)
(* and the new one inserted in statements of their own.                    *)
(***************************************************************************)
EXTENDS Naturals, Sequences, SequencesExt, FiniteSets

CONSTANTS
  NumRequests,   \* requests, numbered in the order of arrival
  Options,       \* the active options, AttributeOption
  AttributeOf,   \* the attribute of each
  Wishes(_)      \* what each request may ask

Requests == 1 .. NumRequests

\* UpdateCharacterDto: option ids, of which some may be unknown or not active.
Wish == [options : SUBSET (Options \cup {"unknown"}) \ {{}}, makeCurrent : BOOLEAN]

VARIABLES
  at,          \* where each request is
  wish,        \* what it asks
  code,        \* the status code of its answer; 0: none
  met,         \* the requests that were in flight together with it
  chosen,      \* optionMap: an option per attribute
  character,   \* the row that it found or inserted; 0: none
  loaded,      \* the attributes that it read with it
  selected,    \* what the save of the character compares with
  characters,  \* user_character, in the order of the insertions
  attributes   \* user_character_attributes

asks == <<wish, met>>
memory == <<chosen, character, loaded, selected>>
vars == <<at, asks, code, memory, characters, attributes>>

Nothing == [current |-> FALSE, attributes |-> {}]

Init ==
  /\ at = [r \in Requests |-> "idle"]
  /\ wish = [r \in Requests |-> [options |-> {}, makeCurrent |-> FALSE]]
  /\ code = [r \in Requests |-> 0]
  /\ met = [r \in Requests |-> {}]
  /\ chosen = [r \in Requests |-> {}]
  /\ character = [r \in Requests |-> 0]
  /\ loaded = [r \in Requests |-> {}]
  /\ selected = [r \in Requests |-> Nothing]
  /\ characters = <<>>
  /\ attributes = {}

AttributesOf(c) == {a \in attributes : a.character = c}
Current == {c \in DOMAIN characters : characters[c].current}
InFlight == {r \in Requests : at[r] \notin {"idle", "done"}}

Goes(r, from, to) == at[r] = from /\ at' = [at EXCEPT ![r] = to]

Answers(r, from, status) ==
  /\ Goes(r, from, "done")
  /\ code' = [code EXCEPT ![r] = status]

Arrive(r, w) ==
  /\ \A q \in Requests : q < r => at[q] # "idle"
  /\ Goes(r, "idle", "options")
  /\ wish' = [wish EXCEPT ![r] = w]
  /\ met' = [q \in Requests |-> IF q = r THEN InFlight
                                ELSE IF q \in InFlight THEN met[q] \cup {r} ELSE met[q]]
  /\ UNCHANGED <<code, memory, characters, attributes>>

\* The active options of the wish; of two of one attribute, the one read last.
FindOptions(r) ==
  LET found == wish[r].options \cap Options
      Of(a) == {o \in found : AttributeOf[o] = a}
      named == {AttributeOf[o] : o \in found}
  IN /\ IF found = {}
        THEN Answers(r, "options", 404) /\ UNCHANGED chosen
        ELSE /\ Goes(r, "options", "current")
             /\ \E choice \in [named -> found] :
                  /\ \A a \in named : choice[a] \in Of(a)
                  /\ chosen' = [chosen EXCEPT ![r] = Range(choice)]
             /\ UNCHANGED code
     /\ UNCHANGED <<asks, character, loaded, selected, characters, attributes>>

\* getCurrentCharacter; of several current characters, any.
FindCurrent(r) ==
  /\ \/ /\ Current = {}
        /\ Goes(r, "current", "create")
        /\ UNCHANGED <<character, loaded>>
     \/ \E c \in Current :
          /\ Goes(r, "current", IF wish[r].makeCurrent THEN "clear" ELSE "select")
          /\ character' = [character EXCEPT ![r] = c]
          /\ loaded' = [loaded EXCEPT ![r] = AttributesOf(c)]
  /\ UNCHANGED <<asks, code, chosen, selected, characters, attributes>>

Create(r) ==
  /\ Goes(r, "create", "insert")
  /\ characters' = Append(characters, [current |-> TRUE, by |-> r])
  /\ character' = [character EXCEPT ![r] = Len(characters')]
  /\ UNCHANGED <<asks, code, chosen, loaded, selected, attributes>>

\* makeCurrent: no character is current for a while.
Clear(r) ==
  /\ Goes(r, "clear", "select")
  /\ characters' = [c \in DOMAIN characters |-> [characters[c] EXCEPT !.current = FALSE]]
  /\ UNCHANGED <<asks, code, memory, attributes>>

\* save of the character, with the attributes that were read: it reads both ...
SaveSelect(r) ==
  /\ Goes(r, "select", "save")
  /\ selected' = [selected EXCEPT ![r] = [current |-> characters[character[r]].current,
                                          attributes |-> AttributesOf(character[r])]]
  /\ UNCHANGED <<asks, code, chosen, character, loaded, characters, attributes>>

\* ... makes current what it read as current, inserts attributes that are gone,
\* and would cut off those that are new, which the table does not allow; those
\* deleted meanwhile the UPDATE does not meet.
Save(r) ==
  LET gone == loaded[r] \ selected[r].attributes
      new == selected[r].attributes \ loaded[r]
      c == character[r]
  IN /\ IF (new \cup gone) \cap attributes # {}
        THEN Answers(r, "save", 500) /\ UNCHANGED <<characters, attributes>>
        ELSE /\ Goes(r, "save", "delete")
             /\ characters' = [characters EXCEPT ![c].current = @ \/ ~selected[r].current]
             /\ attributes' = attributes \cup gone
             /\ UNCHANGED code
     /\ selected' = [selected EXCEPT ![r] = Nothing]
     /\ loaded' = [loaded EXCEPT ![r] = {}]
     /\ UNCHANGED <<asks, chosen, character>>

\* Faulty: the old choice stays.
DeleteNothing(r) ==
  /\ Goes(r, "delete", "insert")
  /\ UNCHANGED <<asks, code, memory, characters, attributes>>

Delete(r) ==
  /\ Goes(r, "delete", "insert")
  /\ attributes' = attributes \ AttributesOf(character[r])
  /\ UNCHANGED <<asks, code, memory, characters>>

\* The new choice, in one transaction.
Insert(r) ==
  /\ Answers(r, "insert", 200)
  /\ attributes' = attributes \cup
       {[character |-> character[r], option |-> o, by |-> r] : o \in chosen[r]}
  /\ UNCHANGED <<asks, memory, characters>>

\* A statement fails; those before it stay done.
Fail(r) ==
  /\ \E step \in {"options", "current", "create", "clear", "select", "save", "delete", "insert"} :
       Answers(r, step, 500)
  /\ selected' = [selected EXCEPT ![r] = Nothing]
  /\ loaded' = [loaded EXCEPT ![r] = {}]
  /\ UNCHANGED <<asks, chosen, character, characters, attributes>>

Next ==
  \E r \in Requests :
    \/ \E w \in Wishes(r) : Arrive(r, w)
    \/ FindOptions(r) \/ FindCurrent(r) \/ Create(r) \/ Clear(r) \/ SaveSelect(r)
    \/ Save(r) \/ Delete(r) \/ Insert(r) \/ Fail(r)

Spec == Init /\ [][Next]_vars

-----------------------------------------------------------------------------
TypeOK ==
  /\ at \in [Requests -> {"idle", "options", "current", "create", "clear", "select", "save",
                          "delete", "insert", "done"}]
  /\ wish \in [Requests -> Wish \cup {[options |-> {}, makeCurrent |-> FALSE]}]
  /\ character \in [Requests -> 0 .. Len(characters)]
  /\ \A a \in attributes : a.character \in DOMAIN characters /\ a.option \in Options

Failed == {r \in Requests : code[r] = 500}

\* Between requests the user has the character asked for last: a user who had a
\* current character loses it only to a request that failed; another is added to
\* it only by a request that overlapped one; its options are the choice of the
\* last request if none overlapped; and two options of one attribute meet in it
\* only if a request that overlapped another left, or brought back, one of them.
CharacterWhole ==
  InFlight = {} =>
    /\ characters # <<>> /\ Failed = {} => Current # {}
    /\ \A c, d \in Current : c < d => met[characters[d].by] # {}
    /\ \A r \in Requests :
         /\ code[r] = 200
         /\ \A q \in Requests : met[q] = {} /\ (q > r => at[q] = "idle")
         => \A c \in Current : {a.option : a \in AttributesOf(c)} = chosen[r]
    /\ \A c \in Current, a, b \in attributes :
         a # b /\ {a.character, b.character} = {c} /\ AttributeOf[a.option] = AttributeOf[b.option]
         => a.by # b.by /\ met[a.by] \cup met[b.by] # {}
=============================================================================
