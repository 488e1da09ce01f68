------------------------------ MODULE GroupLink ------------------------------
(***************************************************************************)
(* The WhatsApp chat a savings group posts to (whatsappGroupLink.service): *)
(* a code is posted in the chat, and the owner who enters it has the group *)
(* linked.                                                                 *)
(*                                                                         *)
(* Codes are never the same by chance: a challenge stands for its code.    *)
(* A request q in Owners is a handler in flight of an owner of a group,    *)
(* already admitted by assertOwner: linkPc[q] names its next database      *)
(* call, linkLoc[q] what it has read.                                      *)
(***************************************************************************)
EXTENDS Naturals, FiniteSets

CONSTANTS
    LinkGroups, Chats,
    NoChat,
    Owners,             \* requests in flight
    MaxAttempts,
    MaxChallenges,      \* bound on the codes of all groups
    MaxGuesses          \* bound on the requests other than for a code

ASSUME LinkAssumption ==
    /\ NoChat \notin Chats /\ IsFiniteSet(Owners)
    /\ MaxAttempts \in Nat \ {0} /\ MaxChallenges \in Nat /\ MaxGuesses \in Nat

VARIABLES
    chat,           \* whatsappGroupJid of each group
    challenge,      \* the challenges, in the order they were created
    sent,           \* how many there are
    linkPc, linkLoc,
    guesses,        \* requests other than for a code
    wrong,          \* auxiliary: wrong codes told of each challenge
    renounced,      \* auxiliary: an unlinking of the group has ended, and no
                    \* code was asked for since
    linkCrossed     \* auxiliary: topics on which two handlers have been at
                    \* work at once

linkHandlers == <<linkPc, linkLoc>>
linkVars == <<chat, challenge, sent, linkHandlers, guesses, wrong, renounced, linkCrossed>>

Ids == 1 .. MaxChallenges
Challenge == [group : LinkGroups \cup {NoChat}, chat : Chats \cup {NoChat},
              used : BOOLEAN, expired : BOOLEAN, attempts : Nat]
NoChallenge == [group |-> NoChat, chat |-> NoChat, used |-> TRUE, expired |-> TRUE, attempts |-> 0]

LinkSteps == {"idle", "invalidate", "create", "try", "link", "drop"}

\* The group, the chat asked for, the challenge read and the code entered; 0:
\* a code that was never sent.
LinkLocals == [group : LinkGroups \cup {NoChat}, chat : Chats \cup {NoChat},
               read : Ids \cup {0}, code : Ids \cup {0}]
NoLinkLocals == [group |-> NoChat, chat |-> NoChat, read |-> 0, code |-> 0]

LinkTypeOK ==
    /\ chat \in [LinkGroups -> Chats \cup {NoChat}]
    /\ challenge \in [Ids -> Challenge]
    /\ sent \in 0 .. MaxChallenges
    /\ linkPc \in [Owners -> LinkSteps]
    /\ linkLoc \in [Owners -> LinkLocals]
    /\ \A q \in Owners : linkPc[q] # "idle" => linkLoc[q].group \in LinkGroups
    /\ \A q \in Owners : linkPc[q] \in {"try", "link"} => linkLoc[q].read \in 1 .. sent
    /\ \A q \in Owners : linkPc[q] \in {"invalidate", "create"} => linkLoc[q].chat \in Chats
    /\ \A i \in 1 .. sent : challenge[i].group \in LinkGroups /\ challenge[i].chat \in Chats
    /\ guesses \in 0 .. MaxGuesses
    /\ wrong \in [Ids -> Nat]
    /\ renounced \in SUBSET LinkGroups
    /\ linkCrossed \in SUBSET {"group", "link"}

LinkInit ==
    /\ chat = [g \in LinkGroups |-> NoChat]
    /\ challenge = [i \in Ids |-> NoChallenge] /\ sent = 0
    /\ linkPc = [q \in Owners |-> "idle"] /\ linkLoc = [q \in Owners |-> NoLinkLocals]
    /\ guesses = 0 /\ wrong = [i \in Ids |-> 0]
    /\ renounced = {} /\ linkCrossed = {}

\* Handlers of the group of q under way besides it.
Others(q, g) == {o \in Owners \ {q} : linkPc[o] # "idle" /\ linkLoc[o].group = g}

LinkGoto(q, step, l) ==
    /\ linkPc' = [linkPc EXCEPT ![q] = step]
    /\ linkLoc' = [linkLoc EXCEPT ![q] = l]
    /\ linkCrossed' = linkCrossed
         \cup {t \in {"group"} : step # "idle" /\ Others(q, l.group) # {}}
         \cup {t \in {"link"} : step = "link" /\ \E o \in Owners \ {q} : linkPc[o] = "link"}

LinkFinish(q) == LinkGoto(q, "idle", NoLinkLocals)

\* Another group is linked to the chat.
Taken(k, g) == \E h \in LinkGroups \ {g} : chat[h] = k

-----------------------------------------------------------------------------
(* sendWhatsappGroupVerification.                                            *)

\* The chat is one the bot has joined.
AskCode(q, g, k) ==
    /\ linkPc[q] = "idle" /\ sent < MaxChallenges
    /\ ~ Taken(k, g)
    /\ LinkGoto(q, "invalidate", [NoLinkLocals EXCEPT !.group = g, !.chat = k])
    /\ renounced' = renounced \ {g}
    /\ UNCHANGED <<chat, challenge, sent, guesses, wrong>>

\* The challenges of the group that have not been used are.
Invalidated(g) ==
    challenge' = [i \in Ids |-> IF challenge[i].group = g THEN [challenge[i] EXCEPT !.used = TRUE]
                                ELSE challenge[i]]

Invalidate(q) ==
    /\ linkPc[q] = "invalidate"
    /\ Invalidated(linkLoc[q].group)
    /\ LinkGoto(q, "create", linkLoc[q])
    /\ UNCHANGED <<chat, sent, guesses, wrong, renounced>>

\* The code is posted after the challenge has been created; if that fails the
\* challenge stays, with a code nobody has seen.
CreateChallenge(q) ==
    /\ linkPc[q] = "create" /\ sent < MaxChallenges
    /\ sent' = sent + 1
    /\ challenge' = [challenge EXCEPT ![sent'] =
                        [group |-> linkLoc[q].group, chat |-> linkLoc[q].chat,
                         used |-> FALSE, expired |-> FALSE, attempts |-> 0]]
    /\ LinkFinish(q)
    /\ UNCHANGED <<chat, guesses, wrong, renounced>>

-----------------------------------------------------------------------------
(* verifyWhatsappGroupLink.                                                  *)

Open(g) == {i \in 1 .. sent : challenge[i].group = g /\ ~ challenge[i].used /\ ~ challenge[i].expired}

Newest(s) == CHOOSE i \in s : \A j \in s : j <= i

\* A code that was sent, to whichever chat, or none of them.
EnterCode(q, g, code) ==
    /\ linkPc[q] = "idle" /\ guesses < MaxGuesses
    /\ Open(g) # {}
    /\ challenge[Newest(Open(g))].attempts < MaxAttempts
    /\ guesses' = guesses + 1
    /\ LinkGoto(q, "try", [NoLinkLocals EXCEPT !.group = g, !.read = Newest(Open(g)), !.code = code])
    /\ UNCHANGED <<chat, challenge, sent, wrong, renounced>>

\* The database raises the count.
CountWrong(q, i) == [challenge EXCEPT ![i].attempts = @ + 1]

WrongCode(q) ==
    LET i == linkLoc[q].read IN
    /\ linkPc[q] = "try" /\ linkLoc[q].code # i
    /\ challenge' = CountWrong(q, i)
    /\ wrong' = [wrong EXCEPT ![i] = @ + 1]
    /\ LinkFinish(q)
    /\ UNCHANGED <<chat, sent, guesses, renounced>>

\* Slip: the chat is looked at only when the code is asked for.
RightCodeUnchecked(q) ==
    /\ linkPc[q] = "try" /\ linkLoc[q].code = linkLoc[q].read
    /\ LinkGoto(q, "link", linkLoc[q])
    /\ UNCHANGED <<chat, challenge, sent, guesses, wrong, renounced>>

\* The chat may have been linked to another group since the code was sent.
RightCode(q) ==
    /\ linkPc[q] = "try" /\ linkLoc[q].code = linkLoc[q].read
    /\ IF Taken(challenge[linkLoc[q].read].chat, linkLoc[q].group) THEN LinkFinish(q)
       ELSE LinkGoto(q, "link", linkLoc[q])
    /\ UNCHANGED <<chat, challenge, sent, guesses, wrong, renounced>>

\* One transaction; it does not look at the challenge again.
Link(q) ==
    LET i == linkLoc[q].read IN
    /\ linkPc[q] = "link"
    /\ challenge' = [challenge EXCEPT ![i].used = TRUE]
    /\ chat' = [chat EXCEPT ![linkLoc[q].group] = challenge[i].chat]
    /\ LinkFinish(q)
    /\ UNCHANGED <<sent, guesses, wrong, renounced>>

-----------------------------------------------------------------------------
(* unlinkWhatsappGroup.                                                      *)

Unlink(q, g) ==
    /\ linkPc[q] = "idle" /\ guesses < MaxGuesses
    /\ guesses' = guesses + 1
    /\ chat' = [chat EXCEPT ![g] = NoChat]
    /\ LinkGoto(q, "drop", [NoLinkLocals EXCEPT !.group = g])
    /\ UNCHANGED <<challenge, sent, wrong, renounced>>

\* Slip: the codes that are out stay good.
DropNothing(q) ==
    /\ linkPc[q] = "drop"
    /\ renounced' = renounced \cup {linkLoc[q].group}
    /\ LinkFinish(q)
    /\ UNCHANGED <<chat, challenge, sent, guesses, wrong>>

DropCodes(q) ==
    /\ linkPc[q] = "drop"
    /\ Invalidated(linkLoc[q].group)
    /\ renounced' = renounced \cup {linkLoc[q].group}
    /\ LinkFinish(q)
    /\ UNCHANGED <<chat, sent, guesses, wrong>>

Expire(i) ==
    /\ i <= sent /\ ~ challenge[i].used /\ ~ challenge[i].expired
    /\ challenge' = [challenge EXCEPT ![i].expired = TRUE]
    /\ UNCHANGED <<chat, sent, linkHandlers, guesses, wrong, renounced, linkCrossed>>

\* The process stops, or a database call throws.
LinkFail(q) ==
    /\ linkPc[q] # "idle"
    /\ LinkFinish(q)
    /\ UNCHANGED <<chat, challenge, sent, guesses, wrong, renounced>>

LinkNext ==
    \/ \E i \in Ids : Expire(i)
    \/ \E q \in Owners :
        \/ \E g \in LinkGroups :
            \/ \E k \in Chats : AskCode(q, g, k)
            \/ \E code \in 0 .. sent : EnterCode(q, g, code)
            \/ Unlink(q, g)
        \/ Invalidate(q) \/ CreateChallenge(q)
        \/ WrongCode(q) \/ RightCode(q) \/ Link(q)
        \/ DropCodes(q) \/ LinkFail(q)

LinkSpec == LinkInit /\ [][LinkNext]_linkVars

-----------------------------------------------------------------------------
(* Properties                                                                *)

\* A chat is linked to one group at a time, unless two links crossed: there is
\* no unique key (verifyWhatsappGroupLink looks, then links).
OneGroupPerChat ==
    "link" \notin linkCrossed =>
        \A g, h \in LinkGroups : chat[g] = chat[h] /\ chat[g] # NoChat => g = h

\* A group that was unlinked stays so until another code is asked for, unless
\* requests for it crossed (unlinkWhatsappGroup uses up the codes).
UnlinkedStays == "group" \notin linkCrossed => \A g \in renounced : chat[g] = NoChat

\* No wrong code goes uncounted, however many are tried at once; more than
\* MaxAttempts of a challenge only as many as handlers are at work
\* (attempts: increment).
GuessesCounted ==
    \A i \in Ids :
        /\ wrong[i] = challenge[i].attempts
        /\ wrong[i] < MaxAttempts + Cardinality(Owners)

=============================================================================
