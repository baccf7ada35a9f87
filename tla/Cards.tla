-------------------------------- MODULE Cards --------------------------------
(***************************************************************************)
(* The card table across restarts.  The operator edits cards.yaml; a start *)
(* of the server reads it twice, once to build the catalogue (deck.Load)   *)
(* and once to hash it.  Decks were saved, and matches reported, under     *)
(* whatever table was in use then.                                         *)
(*                                                                         *)
(* A deck is the number of copies of each id: its order is shuffled away.  *)
(* A table stands for its sha256.                                          *)
(***************************************************************************)
EXTENDS Integers, FiniteSets, Sequences, SequencesExt

CONSTANTS
    Player,
    CardFile,       \* the contents an operator may give cards.yaml
    Request,        \* the decks a client may send
    HandStart,      \* cards in the opening hand
    Games,          \* bound on the reports
    None

VARIABLES
    file,      \* cards.yaml
    phase,     \* "down", "loaded" (between the two reads), "up"
    cat,       \* the Catalog in use
    hash,      \* cardsHash: the table whose sha256 it is
    saved,     \* decks.cards_json of each player, or None
    decks,     \* the decks OnMatch has just loaded
    reports,   \* battle_reports: [players, cards_hash], the true table and edited
    edited     \* history: the file was edited between the reads of this start

vars == <<file, phase, cat, hash, saved, decks, reports, edited>>

-----------------------------------------------------------------------------
(***************************************************************************)
(* package deck.                                                           *)
(***************************************************************************)
Card == [id : STRING, name : STRING, type : STRING, cost : Int, hp : Int, atk : Int,
         damage : Int, heal : Int]

validateCard(card) ==
    /\ card.id # "" /\ card.name # "" /\ card.cost >= 0
    /\ CASE card.type = "minion" -> card.hp > 0 /\ card.atk >= 0
         [] card.type = "spell" -> card.damage # 0 \/ card.heal # 0
         [] OTHER -> FALSE

IDs(table) == [i \in DOMAIN table |-> table[i].id]

\* Load fails on a bad row, on an id given twice and on an empty table.
Load(table) ==
    /\ \A i \in DOMAIN table : validateCard(table[i])
    /\ IsInjective(IDs(table))
    /\ table # <<>>

Has(id) == id \in Range(IDs(cat))

Size(cards) == Cardinality(UNION {{id} \X (1 .. cards[id]) : id \in DOMAIN cards})

ValidateDeck(cards) ==
    /\ Size(cards) \in 8 .. 12
    /\ \A id \in DOMAIN cards : Has(id) /\ cards[id] <= 2

-----------------------------------------------------------------------------
Init ==
    /\ file \in CardFile
    /\ phase = "down" /\ cat = <<>> /\ hash = <<>>
    /\ saved = [p \in Player |-> None]
    /\ decks = [p \in Player |-> None]
    /\ reports = {}
    /\ edited = FALSE

Edit ==
    /\ file' \in CardFile
    /\ edited' = (edited \/ (phase = "loaded" /\ file' # file))
    /\ UNCHANGED <<phase, cat, hash, saved, decks, reports>>

\* run: deck.Load.  A table that does not load ends the process.
LoadTable ==
    /\ phase = "down"
    /\ Load(file)
    /\ phase' = "loaded" /\ cat' = file
    /\ UNCHANGED <<file, hash, saved, decks, reports, edited>>

\* run: os.ReadFile and sha256, and the server is wired up.
HashTable ==
    /\ phase = "loaded"
    /\ phase' = "up" /\ hash' = file
    /\ UNCHANGED <<file, cat, saved, decks, reports, edited>>

\* The process ends, in any way; what it knew is gone.
Stop ==
    /\ phase # "down"
    /\ phase' = "down" /\ cat' = <<>> /\ hash' = <<>> /\ edited' = FALSE
    /\ decks' = [p \in Player |-> None]
    /\ UNCHANGED <<file, saved, reports>>

\* Savedecks with a good token and a good deck.  Everything else answers 400
\* and stores nothing; so does a failed statement, if it was not executed.
Savedecks(p, cards) ==
    /\ phase = "up" /\ ValidateDeck(cards)
    /\ saved' = [saved EXCEPT ![p] = cards]
    /\ UNCHANGED <<file, phase, cat, hash, decks, reports, edited>>

\* Two of each card in the order of the table until there are twelve.
defaultDeck ==
    LET n == IF Len(cat) < 6 THEN Len(cat) ELSE 6
    IN  [id \in {cat[i].id : i \in 1 .. n} |-> 2]

\* Fault: a stored deck is good for ever.
loadDeckOrDefault_Fault(p) == IF saved[p] = None THEN defaultDeck ELSE saved[p]

\* The deck that was saved, if it can still be played, or else the default.
loadDeckOrDefault(p) ==
    IF saved[p] # None /\ ValidateDeck(saved[p]) THEN saved[p] ELSE defaultDeck

\* OnMatch up to NewState: a row that cannot be read counts as none.
LoadDecks(a, b) ==
    /\ phase = "up" /\ a # b
    /\ \E da \in {loadDeckOrDefault(a), defaultDeck}, db \in {loadDeckOrDefault(b), defaultDeck} :
          decks' = [p \in Player |-> CASE p = a -> da [] p = b -> db [] OTHER -> None]
    /\ UNCHANGED <<file, phase, cat, hash, saved, reports, edited>>

\* The match that NewState could deal is played and its report is saved.
Report ==
    /\ phase = "up" /\ Cardinality(reports) < Games
    /\ LET seated == {p \in Player : decks[p] # None}
       IN  /\ seated # {} /\ \A p \in seated : Size(decks[p]) > HandStart
           /\ reports' = reports \cup {[players |-> seated, cards_hash |-> hash, table |-> cat,
                                      edited |-> edited]}
    /\ decks' = [p \in Player |-> None]
    /\ UNCHANGED <<file, phase, cat, hash, saved, edited>>

\* Fault: the hash is not compared.
Build_Fault(rep) ==
    IF rep.table = cat THEN {"ok"} ELSE {"ok", "replay_mismatch"}

\* Build: another hash is refused.  Replayed under another table the match may
\* or may not differ.
Build(rep) ==
    IF rep.cards_hash # hash THEN {"cards_changed"}
    ELSE IF rep.table = cat THEN {"ok"}
    ELSE {"ok", "replay_mismatch"}

\* ReplayReport with a good token, which changes nothing: what the players of the
\* match may be answered.  For others there is no such report.
ReplayReport(me, rep) == IF me \in rep.players THEN Build(rep) ELSE {"not_found"}

Next ==
    \/ Edit \/ LoadTable \/ HashTable \/ Stop \/ Report
    \/ \E p \in Player, cards \in Request : Savedecks(p, cards)
    \/ \E a, b \in Player : LoadDecks(a, b)

Spec == Init /\ [][Next]_vars

-----------------------------------------------------------------------------
\* A match begins with decks that are valid under the card table in use,
\* whatever tables the decks were saved under, as long as the table has the four
\* cards that the default deck needs.
PlayableDecks ==
    \A p \in Player : decks[p] # None /\ Len(cat) >= 4 => ValidateDeck(decks[p])

\* ReplayReport shows a match as it was played, or answers cards_changed: never
\* a match replayed with other cards, and never a mismatch that the operator's
\* new table has caused; and as long as the table is the same, or the same again,
\* the match can be shown.  cards.yaml must not have been edited between the two
\* reads of either start, of the server that played and of the one that replays.
ReplaysTheGame ==
    phase = "up" /\ ~edited =>
        \A me \in Player : \A rep \in {rep \in reports : ~rep.edited} :
            ReplayReport(me, rep) = IF me \notin rep.players THEN {"not_found"}
                                    ELSE IF rep.table = cat THEN {"ok"} ELSE {"cards_changed"}

=============================================================================
