-------------------------- MODULE GameClient_proofs --------------------------
(***************************************************************************)
(* What the client promises whatever the user, the threads, the server and *)
(* the connection do, for any set of keys and all bounds.                  *)
(***************************************************************************)
EXTENDS GameClient, FiniteSetTheorems, SequenceTheorems, TLAPS

(* What has been said, in the only order there is. *)
Registered == <<"REGISTER">>
MadeReady == <<"REGISTER", "READY">>
Acting == <<"REGISTER", "READY", "ACTION">>

ReadySaid == said \in {MadeReady, Acting}

(* How the buttons, the ids and the connection go together. *)
RegisterInv ==
    /\ register_on => conn = "none"
    /\ conn = "none" => /\ edt = "idle" /\ ~ready_on /\ ~client_id /\ ~panel_id
                        /\ said = << >> /\ listener = "none"
    /\ conn = "open" => said # << >>
    /\ edt = "answer" => ready_on /\ ~client_id /\ ~panel_id /\ listener = "new"

(* READY is printed once, with an id, and before any action. *)
SaidInv ==
    /\ said \in {<< >>, Registered, MadeReady, Acting}
    /\ ReadySaid => panel_id /\ ~ready_on /\ edt # "ready"
    /\ panel_id => client_id
    /\ client_id => first = "id"
    /\ edt \in {"ready", "keys"} => panel_id
    /\ edt = "ready" => ~ready_on
    /\ conn = "open" /\ (key_listener \/ (panel_id /\ edt # "ready")) => ReadySaid
    /\ client_id /\ ~printed => ready_on \/ edt = "ready"

(* What can lead to an action needs the id of the panels. *)
ActingInv ==
    /\ key_listener \/ editable \/ text => panel_id
    /\ directions # {} \/ batch # {} \/ changed # {} => key_listener

(* The directions of the listener. *)
KeysInv ==
    /\ directions \subseteq held \cup lost
    /\ batch \subseteq directions \cup changed
    /\ batch # {} => listener \in {"send", "dead"}
    /\ listener \in {"copy", "send"} => credit >= 2

(* The id was answered if anybody has it, and only a running game is missed. *)
SeenInv ==
    /\ first = "id" \/ "id" \in {down[i] : i \in DOMAIN down} => answered
    /\ behind => game = "running"

(* Who said READY in the lobby is only sent updates with its mouse. *)
Sent == {line} \cup {down[i] : i \in DOMAIN down}
JoinInv ==
    /\ game = "lobby" => ~joiner
    /\ ~joiner =>
      /\ ~behind /\ "absent" \notin Sent
      /\ game = "running" \/ Sent \cap Update # {} => ReadySaid
      /\ death # "NullPointer"

Word == {"REGISTER", "READY", "ACTION"}

LEMMA Texts ==
    /\ Registered \in Seq(Word) /\ Len(Registered) = 1 /\ Registered[1] = "REGISTER"
    /\ MadeReady \in Seq(Word) /\ Len(MadeReady) = 2
    /\ MadeReady[1] = "REGISTER" /\ MadeReady[2] = "READY"
    /\ Acting \in Seq(Word) /\ Len(Acting) = 3
    /\ Acting[1] = "REGISTER" /\ Acting[2] = "READY" /\ Acting[3] = "ACTION"
<1>1. Registered \in Seq(Word) /\ Len(Registered) = 1 /\ Registered[1] = "REGISTER"
  BY DEF Registered, Word
<1>2. MadeReady \in Seq(Word) /\ Len(MadeReady) = 2
  BY DEF MadeReady, Word
<1>3. MadeReady[1] = "REGISTER" /\ MadeReady[2] = "READY"
  BY DEF MadeReady
<1>4. Acting \in Seq(Word) /\ Len(Acting) = 3
  BY DEF Acting, Word
<1>5. Acting[1] = "REGISTER" /\ Acting[2] = "READY" /\ Acting[3] = "ACTION"
  BY DEF Acting
<1> QED
  BY <1>1, <1>2, <1>3, <1>4, <1>5

LEMMA Kinds ==
    /\ Registered # << >> /\ MadeReady # << >> /\ Acting # << >>
    /\ Registered # MadeReady /\ Registered # Acting /\ MadeReady # Acting
    /\ {<< >>, Registered, MadeReady, Acting} \subseteq Seq(Word)
<1>1. Len(<< >>) = 0 /\ << >> \in Seq(Word)
  OBVIOUS
<1>2. Registered # << >> /\ MadeReady # << >> /\ Acting # << >>
  BY DEF Registered, MadeReady, Acting
<1>3. Registered # MadeReady /\ Registered # Acting /\ MadeReady # Acting
  BY Texts
<1> QED
  BY <1>1, <1>2, <1>3, Texts

LEMMA HasReady ==
    ASSUME SaidInv PROVE Has("READY") <=> ReadySaid
<1>1. CASE said = << >>
  BY <1>1, Kinds DEF Has, ReadySaid
<1>2. CASE said = Registered
  <2>1. ~Has("READY")
    BY <1>2 DEF Has, Registered
  <2> QED
    BY <1>2, <2>1, Kinds DEF ReadySaid
<1>3. CASE said = MadeReady
  <2>1. 2 \in DOMAIN said /\ said[2] = "READY"
    BY <1>3 DEF MadeReady
  <2> QED
    BY <1>3, <2>1 DEF ReadySaid, Has
<1>4. CASE said = Acting
  <2>1. 2 \in DOMAIN said /\ said[2] = "READY"
    BY <1>4 DEF Acting
  <2> QED
    BY <1>4, <2>1 DEF ReadySaid, Has
<1> QED
  BY <1>1, <1>2, <1>3, <1>4 DEF SaidInv

LEMMA AppendIs ==
    ASSUME NEW S, NEW s \in Seq(S), NEW t \in Seq(S), NEW w \in S,
           Len(t) = Len(s) + 1, t[Len(s) + 1] = w,
           \A i \in 1..Len(s) : t[i] = s[i]
    PROVE  Append(s, w) = t
<1>1. /\ Append(s, w) \in Seq(S) /\ Len(Append(s, w)) = Len(s) + 1
      /\ \A i \in 1..Len(s) : Append(s, w)[i] = s[i]
      /\ Append(s, w)[Len(s) + 1] = w
  BY AppendProperties
<1>2. Len(s) \in Nat
  OBVIOUS
<1>3. \A i \in 1..Len(Append(s, w)) : Append(s, w)[i] = t[i]
  BY <1>1, <1>2
<1> QED
  BY <1>1, <1>3, SeqEqual

LEMMA Appended ==
    /\ Append(Registered, "READY") = MadeReady
    /\ Append(MadeReady, "ACTION") = Acting
<1>1. \A i \in 1..Len(Registered) : MadeReady[i] = Registered[i]
  <2>1. Len(Registered) = 1
    BY Texts
  <2>2. \A i \in 1..1 : MadeReady[i] = Registered[i]
    BY Texts
  <2> QED
    BY <2>1, <2>2
<1>2. \A i \in 1..Len(MadeReady) : Acting[i] = MadeReady[i]
  <2>1. Len(MadeReady) = 2
    BY Texts
  <2>2. \A i \in 1..2 : i = 1 \/ i = 2
    OBVIOUS
  <2>3. \A i \in 1..2 : Acting[i] = MadeReady[i]
    BY <2>2, Texts
  <2> QED
    BY <2>1, <2>3
<1>3. /\ Len(MadeReady) = Len(Registered) + 1
      /\ MadeReady[Len(Registered) + 1] = "READY"
  <2>1. Len(Registered) = 1 /\ Len(MadeReady) = 2
    BY Texts
  <2>2. Len(Registered) + 1 = 2
    BY <2>1
  <2> QED
    BY <2>1, <2>2, Texts
<1>4. /\ Len(Acting) = Len(MadeReady) + 1
      /\ Acting[Len(MadeReady) + 1] = "ACTION"
  <2>1. Len(MadeReady) = 2 /\ Len(Acting) = 3
    BY Texts
  <2>2. Len(MadeReady) + 1 = 3
    BY <2>1
  <2> QED
    BY <2>1, <2>2, Texts
<1>5. /\ "READY" \in Word /\ "ACTION" \in Word
      /\ Registered \in Seq(Word) /\ MadeReady \in Seq(Word) /\ Acting \in Seq(Word)
  BY Texts DEF Word
<1>6. Append(Registered, "READY") = MadeReady
  BY <1>1, <1>3, <1>5, AppendIs, Zenon
<1>7. Append(MadeReady, "ACTION") = Acting
  BY <1>2, <1>4, <1>5, AppendIs, Zenon
<1> QED
  BY <1>6, <1>7

LEMMA SaySomething ==
    ASSUME SaidInv, NEW w \in Word, Say(w) PROVE said' \in Seq(Word) \ {<< >>}
<1>1. said \in Seq(Word)
  BY Kinds DEF SaidInv
<1> QED
  BY <1>1, AppendProperties DEF Say

LEMMA SayAction ==
    ASSUME ReadySaid, Say("ACTION") PROVE said' = Acting
<1>1. "READY" # "ACTION"
  OBVIOUS
<1>2. CASE said = MadeReady
  BY <1>1, <1>2, Texts, Appended DEF Say
<1>3. CASE said = Acting
  BY <1>3, Texts, Kinds DEF Say
<1> QED
  BY <1>2, <1>3 DEF ReadySaid

LEMMA SayReady ==
    ASSUME said = Registered, Say("READY") PROVE said' = MadeReady
<1>1. "REGISTER" # "READY"
  OBVIOUS
<1> QED
  BY <1>1, Texts, Appended DEF Say

LEMMA RegisterNext ==
    ASSUME SaidInv, RegisterInv, [Next]_vars PROVE RegisterInv'
<1>1. CASE ConnectFails
  BY <1>1
  DEF ConnectFails, buttonVars, keyVars, voteVars, listenerVars, netVars,
      serverVars, RegisterInv
<1>2. CASE Register
  BY <1>2
  DEF Register, buttonVars, keyVars, voteVars, listenerVars, netVars, serverVars,
      RegisterInv
<1>3. CASE RegisterReturns
  BY <1>3
  DEF RegisterReturns, RegisterTakes, buttonVars, keyVars, voteVars, listenerVars,
      netVars, serverVars, RegisterInv
<1>4. CASE RegisterFails
  BY <1>4
  DEF RegisterFails, buttonVars, keyVars, voteVars, listenerVars, netVars,
      serverVars, RegisterInv
<1>5. CASE Ready
  BY <1>5
  DEF Ready, HasId, ChangeClientId, buttonVars, keyVars, voteVars, listenerVars,
      netVars, serverVars, RegisterInv
<1>6. CASE InitiateReady
  BY <1>6, SaySomething
  DEF InitiateReady, Sends, SendRaises, Unheard, Say, FailReady, buttonVars, keyVars, voteVars, listenerVars,
      netVars, serverVars, RegisterInv, Word
<1>7. CASE AddKeyListener
  BY <1>7
  DEF AddKeyListener, buttonVars, keyVars, voteVars, listenerVars, netVars,
      serverVars, RegisterInv
<1>8. CASE SendVote
  BY <1>8, SaySomething
  DEF SendVote, Sends, SendRaises, Unheard, Say, buttonVars, keyVars, voteVars, listenerVars, netVars,
      serverVars, RegisterInv, Word
<1>9. ASSUME NEW d \in Direction, Press(d) PROVE RegisterInv'
  BY <1>9
  DEF Press, AddDirection, Modify, Listening, buttonVars, keyVars, voteVars,
      listenerVars, netVars, serverVars, RegisterInv
<1>10. ASSUME NEW d \in Direction, Release(d) PROVE RegisterInv'
  BY <1>10
  DEF Release, RemoveDirection, Modify, Listening, buttonVars, keyVars, voteVars,
      listenerVars, netVars, serverVars, RegisterInv
<1>11. CASE PressSpace
  BY <1>11, SaySomething
  DEF PressSpace, Sends, SendRaises, Unheard, Say, Listening, buttonVars, keyVars, voteVars, listenerVars,
      netVars, serverVars, RegisterInv, Word
<1>12. CASE LoseFocus
  BY <1>12
  DEF LoseFocus, buttonVars, keyVars, voteVars, listenerVars, netVars, serverVars,
      RegisterInv
<1>13. CASE RegainFocus
  BY <1>13
  DEF RegainFocus, buttonVars, keyVars, voteVars, listenerVars, netVars, serverVars,
      RegisterInv
<1>14. CASE CheckRunning
  BY <1>14
  DEF CheckRunning, buttonVars, keyVars, voteVars, listenerVars, netVars,
      serverVars, RegisterInv
<1>15. CASE ReadLine
  BY <1>15
  DEF ReadLine, TakeLine, IsFrameOver, buttonVars, keyVars, voteVars, listenerVars,
      netVars, serverVars, RegisterInv
<1>16. CASE CopyDirections
  BY <1>16
  DEF CopyDirections, Die, buttonVars, keyVars, voteVars, listenerVars, netVars,
      serverVars, RegisterInv
<1>17. ASSUME NEW d \in Direction, SendDirection(d) PROVE RegisterInv'
  BY <1>17, SaySomething
  DEF SendDirection, Sends, SendRaises, Unheard, Say, Die, buttonVars, keyVars, voteVars, listenerVars, netVars,
      serverVars, RegisterInv, Word
<1>18. CASE ShowUpdate
  BY <1>18
  DEF ShowUpdate, Die, buttonVars, keyVars, voteVars, listenerVars, netVars,
      serverVars, RegisterInv
<1>19. CASE HalfFrame
  BY <1>19
  DEF HalfFrame, buttonVars, keyVars, voteVars, listenerVars, netVars, serverVars,
      RegisterInv
<1>20. CASE Close
  BY <1>20
  DEF Close, buttonVars, keyVars, voteVars, listenerVars, netVars, serverVars,
      RegisterInv
<1>21. CASE Joined
  BY <1>21
  DEF Joined, buttonVars, keyVars, voteVars, listenerVars, netVars, serverVars,
      RegisterInv
<1>22. CASE Answer
  BY <1>22
  DEF Answer, Deliver, buttonVars, keyVars, voteVars, listenerVars, netVars,
      serverVars, RegisterInv
<1>23. CASE SendUpdate
  BY <1>23
  DEF SendUpdate, Deliver, buttonVars, keyVars, voteVars, listenerVars, netVars,
      serverVars, RegisterInv
<1>24. CASE StartGame
  BY <1>24
  DEF StartGame, buttonVars, keyVars, voteVars, listenerVars, netVars, serverVars,
      RegisterInv
<1>25. CASE Break
  BY <1>25
  DEF Break, buttonVars, keyVars, voteVars, listenerVars, netVars, serverVars,
      RegisterInv
<1>26. CASE UNCHANGED vars
  BY <1>26 DEF vars, buttonVars, keyVars, voteVars, listenerVars, netVars,
      serverVars, RegisterInv
<1> QED
  BY <1>1, <1>2, <1>3, <1>4, <1>5, <1>6, <1>7, <1>8, <1>9, <1>10, <1>11, <1>12,
      <1>13, <1>14, <1>15, <1>16, <1>17, <1>18, <1>19, <1>20, <1>21, <1>22, <1>23,
      <1>24, <1>25, <1>26
  DEF Next, UserStep, HandlerStep, ListenerStep, ServerStep

LEMMA ActingNext ==
    ASSUME SaidInv, ActingInv, [Next]_vars PROVE ActingInv'
<1>1. CASE ConnectFails
  BY <1>1
  DEF ConnectFails, buttonVars, keyVars, voteVars, listenerVars, netVars,
      serverVars, ActingInv, SaidInv
<1>2. CASE Register
  BY <1>2
  DEF Register, buttonVars, keyVars, voteVars, listenerVars, netVars, serverVars,
      ActingInv, SaidInv
<1>3. CASE RegisterReturns
  BY <1>3
  DEF RegisterReturns, RegisterTakes, buttonVars, keyVars, voteVars, listenerVars,
      netVars, serverVars, ActingInv, SaidInv
<1>4. CASE RegisterFails
  BY <1>4
  DEF RegisterFails, buttonVars, keyVars, voteVars, listenerVars, netVars,
      serverVars, ActingInv, SaidInv
<1>5. CASE Ready
  BY <1>5
  DEF Ready, HasId, ChangeClientId, buttonVars, keyVars, voteVars, listenerVars,
      netVars, serverVars, ActingInv, SaidInv
<1>6. CASE InitiateReady
  BY <1>6
  DEF InitiateReady, Sends, SendRaises, Unheard, Say, FailReady, buttonVars, keyVars, voteVars, listenerVars,
      netVars, serverVars, ActingInv, SaidInv
<1>7. CASE AddKeyListener
  BY <1>7
  DEF AddKeyListener, buttonVars, keyVars, voteVars, listenerVars, netVars,
      serverVars, ActingInv, SaidInv
<1>8. CASE SendVote
  BY <1>8
  DEF SendVote, Sends, SendRaises, Unheard, Say, buttonVars, keyVars, voteVars, listenerVars, netVars,
      serverVars, ActingInv, SaidInv
<1>9. ASSUME NEW d \in Direction, Press(d) PROVE ActingInv'
  BY <1>9
  DEF Press, AddDirection, Modify, Listening, buttonVars, keyVars, voteVars,
      listenerVars, netVars, serverVars, ActingInv, SaidInv
<1>10. ASSUME NEW d \in Direction, Release(d) PROVE ActingInv'
  BY <1>10
  DEF Release, RemoveDirection, Modify, Listening, buttonVars, keyVars, voteVars,
      listenerVars, netVars, serverVars, ActingInv, SaidInv
<1>11. CASE PressSpace
  BY <1>11
  DEF PressSpace, Sends, SendRaises, Unheard, Say, Listening, buttonVars, keyVars, voteVars, listenerVars,
      netVars, serverVars, ActingInv, SaidInv
<1>12. CASE LoseFocus
  BY <1>12
  DEF LoseFocus, buttonVars, keyVars, voteVars, listenerVars, netVars, serverVars,
      ActingInv, SaidInv
<1>13. CASE RegainFocus
  BY <1>13
  DEF RegainFocus, buttonVars, keyVars, voteVars, listenerVars, netVars, serverVars,
      ActingInv, SaidInv
<1>14. CASE CheckRunning
  BY <1>14
  DEF CheckRunning, buttonVars, keyVars, voteVars, listenerVars, netVars,
      serverVars, ActingInv, SaidInv
<1>15. CASE ReadLine
  BY <1>15
  DEF ReadLine, TakeLine, IsFrameOver, buttonVars, keyVars, voteVars, listenerVars,
      netVars, serverVars, ActingInv, SaidInv
<1>16. CASE CopyDirections
  BY <1>16
  DEF CopyDirections, Die, buttonVars, keyVars, voteVars, listenerVars, netVars,
      serverVars, ActingInv, SaidInv
<1>17. ASSUME NEW d \in Direction, SendDirection(d) PROVE ActingInv'
  BY <1>17
  DEF SendDirection, Sends, SendRaises, Unheard, Say, Die, buttonVars, keyVars, voteVars, listenerVars, netVars,
      serverVars, ActingInv, SaidInv
<1>18. CASE ShowUpdate
  BY <1>18
  DEF ShowUpdate, Die, buttonVars, keyVars, voteVars, listenerVars, netVars,
      serverVars, ActingInv, SaidInv
<1>19. CASE HalfFrame
  BY <1>19
  DEF HalfFrame, buttonVars, keyVars, voteVars, listenerVars, netVars, serverVars,
      ActingInv, SaidInv
<1>20. CASE Close
  BY <1>20
  DEF Close, buttonVars, keyVars, voteVars, listenerVars, netVars, serverVars,
      ActingInv, SaidInv
<1>21. CASE Joined
  BY <1>21
  DEF Joined, buttonVars, keyVars, voteVars, listenerVars, netVars, serverVars,
      ActingInv, SaidInv
<1>22. CASE Answer
  BY <1>22
  DEF Answer, Deliver, buttonVars, keyVars, voteVars, listenerVars, netVars,
      serverVars, ActingInv, SaidInv
<1>23. CASE SendUpdate
  BY <1>23
  DEF SendUpdate, Deliver, buttonVars, keyVars, voteVars, listenerVars, netVars,
      serverVars, ActingInv, SaidInv
<1>24. CASE StartGame
  BY <1>24
  DEF StartGame, buttonVars, keyVars, voteVars, listenerVars, netVars, serverVars,
      ActingInv, SaidInv
<1>25. CASE Break
  BY <1>25
  DEF Break, buttonVars, keyVars, voteVars, listenerVars, netVars, serverVars,
      ActingInv, SaidInv
<1>26. CASE UNCHANGED vars
  BY <1>26 DEF vars, buttonVars, keyVars, voteVars, listenerVars, netVars,
      serverVars, ActingInv, SaidInv
<1> QED
  BY <1>1, <1>2, <1>3, <1>4, <1>5, <1>6, <1>7, <1>8, <1>9, <1>10, <1>11, <1>12,
      <1>13, <1>14, <1>15, <1>16, <1>17, <1>18, <1>19, <1>20, <1>21, <1>22, <1>23,
      <1>24, <1>25, <1>26
  DEF Next, UserStep, HandlerStep, ListenerStep, ServerStep

LEMMA KeysNext ==
    ASSUME TypeOK, RegisterInv, KeysInv, [Next]_vars PROVE KeysInv'
<1>1. CASE ConnectFails
  BY <1>1
  DEF ConnectFails, buttonVars, keyVars, voteVars, listenerVars, netVars,
      serverVars, KeysInv, RegisterInv, TypeOK
<1>2. CASE Register
  BY <1>2
  DEF Register, buttonVars, keyVars, voteVars, listenerVars, netVars, serverVars,
      KeysInv, RegisterInv, TypeOK
<1>3. CASE RegisterReturns
  BY <1>3
  DEF RegisterReturns, RegisterTakes, buttonVars, keyVars, voteVars, listenerVars,
      netVars, serverVars, KeysInv, RegisterInv, TypeOK
<1>4. CASE RegisterFails
  BY <1>4
  DEF RegisterFails, buttonVars, keyVars, voteVars, listenerVars, netVars,
      serverVars, KeysInv, RegisterInv, TypeOK
<1>5. CASE Ready
  BY <1>5
  DEF Ready, HasId, ChangeClientId, buttonVars, keyVars, voteVars, listenerVars,
      netVars, serverVars, KeysInv, RegisterInv, TypeOK
<1>6. CASE InitiateReady
  BY <1>6
  DEF InitiateReady, Sends, SendRaises, Unheard, Say, FailReady, buttonVars, keyVars, voteVars, listenerVars,
      netVars, serverVars, KeysInv, RegisterInv, TypeOK
<1>7. CASE AddKeyListener
  BY <1>7
  DEF AddKeyListener, buttonVars, keyVars, voteVars, listenerVars, netVars,
      serverVars, KeysInv, RegisterInv, TypeOK
<1>8. CASE SendVote
  BY <1>8
  DEF SendVote, Sends, SendRaises, Unheard, Say, buttonVars, keyVars, voteVars, listenerVars, netVars,
      serverVars, KeysInv, RegisterInv, TypeOK
<1>9. ASSUME NEW d \in Direction, Press(d) PROVE KeysInv'
  BY <1>9
  DEF Press, AddDirection, Modify, Listening, buttonVars, keyVars, voteVars,
      listenerVars, netVars, serverVars, KeysInv, RegisterInv, TypeOK
<1>10. ASSUME NEW d \in Direction, Release(d) PROVE KeysInv'
  BY <1>10
  DEF Release, RemoveDirection, Modify, Listening, buttonVars, keyVars, voteVars,
      listenerVars, netVars, serverVars, KeysInv, RegisterInv, TypeOK
<1>11. CASE PressSpace
  BY <1>11
  DEF PressSpace, Sends, SendRaises, Unheard, Say, Listening, buttonVars, keyVars, voteVars, listenerVars,
      netVars, serverVars, KeysInv, RegisterInv, TypeOK
<1>12. CASE LoseFocus
  BY <1>12
  DEF LoseFocus, buttonVars, keyVars, voteVars, listenerVars, netVars, serverVars,
      KeysInv, RegisterInv, TypeOK
<1>13. CASE RegainFocus
  BY <1>13
  DEF RegainFocus, buttonVars, keyVars, voteVars, listenerVars, netVars, serverVars,
      KeysInv, RegisterInv, TypeOK
<1>14. CASE CheckRunning
  BY <1>14
  DEF CheckRunning, buttonVars, keyVars, voteVars, listenerVars, netVars,
      serverVars, KeysInv, RegisterInv, TypeOK
<1>15. CASE ReadLine
  BY <1>15
  DEF ReadLine, TakeLine, IsFrameOver, buttonVars, keyVars, voteVars, listenerVars,
      netVars, serverVars, KeysInv, RegisterInv, TypeOK
<1>16. CASE CopyDirections
  BY <1>16
  DEF CopyDirections, Die, buttonVars, keyVars, voteVars, listenerVars, netVars,
      serverVars, KeysInv, RegisterInv, TypeOK
<1>17. ASSUME NEW d \in Direction, SendDirection(d) PROVE KeysInv'
  BY <1>17
  DEF SendDirection, Sends, SendRaises, Unheard, Say, Die, buttonVars, keyVars, voteVars, listenerVars, netVars,
      serverVars, KeysInv, RegisterInv, TypeOK
<1>18. CASE ShowUpdate
  BY <1>18
  DEF ShowUpdate, Die, buttonVars, keyVars, voteVars, listenerVars, netVars,
      serverVars, KeysInv, RegisterInv, TypeOK
<1>19. CASE HalfFrame
  BY <1>19
  DEF HalfFrame, buttonVars, keyVars, voteVars, listenerVars, netVars, serverVars,
      KeysInv, RegisterInv, TypeOK
<1>20. CASE Close
  BY <1>20
  DEF Close, buttonVars, keyVars, voteVars, listenerVars, netVars, serverVars,
      KeysInv, RegisterInv, TypeOK
<1>21. CASE Joined
  BY <1>21
  DEF Joined, buttonVars, keyVars, voteVars, listenerVars, netVars, serverVars,
      KeysInv, RegisterInv, TypeOK
<1>22. CASE Answer
  BY <1>22
  DEF Answer, Deliver, buttonVars, keyVars, voteVars, listenerVars, netVars,
      serverVars, KeysInv, RegisterInv, TypeOK
<1>23. CASE SendUpdate
  BY <1>23
  DEF SendUpdate, Deliver, buttonVars, keyVars, voteVars, listenerVars, netVars,
      serverVars, KeysInv, RegisterInv, TypeOK
<1>24. CASE StartGame
  BY <1>24
  DEF StartGame, buttonVars, keyVars, voteVars, listenerVars, netVars, serverVars,
      KeysInv, RegisterInv, TypeOK
<1>25. CASE Break
  BY <1>25
  DEF Break, buttonVars, keyVars, voteVars, listenerVars, netVars, serverVars,
      KeysInv, RegisterInv, TypeOK
<1>26. CASE UNCHANGED vars
  BY <1>26 DEF vars, buttonVars, keyVars, voteVars, listenerVars, netVars,
      serverVars, KeysInv, RegisterInv, TypeOK
<1> QED
  BY <1>1, <1>2, <1>3, <1>4, <1>5, <1>6, <1>7, <1>8, <1>9, <1>10, <1>11, <1>12,
      <1>13, <1>14, <1>15, <1>16, <1>17, <1>18, <1>19, <1>20, <1>21, <1>22, <1>23,
      <1>24, <1>25, <1>26
  DEF Next, UserStep, HandlerStep, ListenerStep, ServerStep

LEMMA SaidNext ==
    ASSUME RegisterInv, ActingInv, SaidInv, [Next]_vars PROVE SaidInv'
<1>1. CASE ConnectFails
  BY <1>1
  DEF ConnectFails, buttonVars, keyVars, voteVars, listenerVars, netVars,
      serverVars, SaidInv, ReadySaid
<1>2. CASE Register
  BY <1>2, Kinds
  DEF Register, buttonVars, keyVars, voteVars, listenerVars, netVars, serverVars,
      SaidInv, ReadySaid, RegisterInv, ActingInv, Registered
<1>3. CASE RegisterReturns
  BY <1>3, Kinds
  DEF RegisterReturns, RegisterTakes, buttonVars, keyVars, voteVars, listenerVars,
      netVars, serverVars, SaidInv, ReadySaid, RegisterInv
<1>4. CASE RegisterFails
  BY <1>4
  DEF RegisterFails, buttonVars, keyVars, voteVars, listenerVars, netVars,
      serverVars, SaidInv, ReadySaid
<1>5. CASE Ready
  BY <1>5, Kinds
  DEF Ready, HasId, ChangeClientId, buttonVars, keyVars, voteVars, listenerVars,
      netVars, serverVars, SaidInv, ReadySaid, RegisterInv
<1>6. CASE InitiateReady
  <2>1. CASE Say("READY")
    <3>1. said = Registered
      BY <1>6, <2>1 DEF InitiateReady, Sends, SendRaises, Unheard, Say, RegisterInv, SaidInv, ReadySaid
    <3>2. said' = MadeReady
      BY <2>1, <3>1, SayReady
    <3> QED
      BY <1>6, <2>1, <3>2, Kinds DEF InitiateReady, Sends, SendRaises, Unheard, Say, SaidInv, ReadySaid
  <2>2. CASE Unheard
    BY <1>6, <2>2 DEF InitiateReady, Unheard, Say, FailReady, SaidInv, ReadySaid
  <2> QED
    BY <1>6, <2>1, <2>2 DEF InitiateReady, Sends, SendRaises
<1>7. CASE AddKeyListener
  BY <1>7
  DEF AddKeyListener, buttonVars, keyVars, voteVars, listenerVars, netVars,
      serverVars, SaidInv, ReadySaid
<1>8. CASE SendVote
  BY <1>8, SayAction, Kinds
  DEF SendVote, Sends, SendRaises, Unheard, Say, buttonVars, keyVars, voteVars, listenerVars, netVars,
      serverVars, SaidInv, ReadySaid, ActingInv
<1>9. ASSUME NEW d \in Direction, Press(d) PROVE SaidInv'
  BY <1>9
  DEF Press, AddDirection, Modify, Listening, buttonVars, keyVars, voteVars,
      listenerVars, netVars, serverVars, SaidInv, ReadySaid
<1>10. ASSUME NEW d \in Direction, Release(d) PROVE SaidInv'
  BY <1>10
  DEF Release, RemoveDirection, Modify, Listening, buttonVars, keyVars, voteVars,
      listenerVars, netVars, serverVars, SaidInv, ReadySaid
<1>11. CASE PressSpace
  BY <1>11, SayAction, Kinds
  DEF PressSpace, Sends, SendRaises, Unheard, Say, Listening, buttonVars, keyVars, voteVars, listenerVars,
      netVars, serverVars, SaidInv, ReadySaid, ActingInv
<1>12. CASE LoseFocus
  BY <1>12
  DEF LoseFocus, buttonVars, keyVars, voteVars, listenerVars, netVars, serverVars,
      SaidInv, ReadySaid
<1>13. CASE RegainFocus
  BY <1>13
  DEF RegainFocus, buttonVars, keyVars, voteVars, listenerVars, netVars, serverVars,
      SaidInv, ReadySaid
<1>14. CASE CheckRunning
  BY <1>14
  DEF CheckRunning, buttonVars, keyVars, voteVars, listenerVars, netVars,
      serverVars, SaidInv, ReadySaid
<1>15. CASE ReadLine
  BY <1>15
  DEF ReadLine, TakeLine, IsFrameOver, buttonVars, keyVars, voteVars, listenerVars,
      netVars, serverVars, SaidInv, ReadySaid
<1>16. CASE CopyDirections
  BY <1>16
  DEF CopyDirections, Die, buttonVars, keyVars, voteVars, listenerVars, netVars,
      serverVars, SaidInv, ReadySaid
<1>17. ASSUME NEW d \in Direction, SendDirection(d) PROVE SaidInv'
  <2>1. CASE Say("ACTION") /\ UNCHANGED listener
    <3>1. conn = "open" /\ ReadySaid
      <4>1. batch # {}
        BY <1>17 DEF SendDirection
      <4>2. key_listener
        BY <4>1 DEF ActingInv
      <4>3. conn = "open"
        BY <2>1 DEF Say
      <4> QED
        BY <4>2, <4>3 DEF SaidInv, ReadySaid
    <3>2. said' = Acting
      BY <2>1, <3>1, SayAction
    <3> QED
      BY <1>17, <3>1, <3>2 DEF SendDirection, buttonVars, SaidInv, ReadySaid
  <2>2. CASE UNCHANGED said
    BY <1>17, <2>2 DEF SendDirection, buttonVars, SaidInv, ReadySaid
  <2> QED
    BY <1>17, <2>1, <2>2 DEF SendDirection, Sends, SendRaises, Unheard
<1>18. CASE ShowUpdate
  BY <1>18
  DEF ShowUpdate, Die, buttonVars, keyVars, voteVars, listenerVars, netVars,
      serverVars, SaidInv, ReadySaid
<1>19. CASE HalfFrame
  BY <1>19
  DEF HalfFrame, buttonVars, keyVars, voteVars, listenerVars, netVars, serverVars,
      SaidInv, ReadySaid
<1>20. CASE Close
  BY <1>20
  DEF Close, buttonVars, keyVars, voteVars, listenerVars, netVars, serverVars,
      SaidInv, ReadySaid
<1>21. CASE Joined
  BY <1>21, Kinds
  DEF Joined, buttonVars, keyVars, voteVars, listenerVars, netVars, serverVars,
      SaidInv, ReadySaid, RegisterInv
<1>22. CASE Answer
  BY <1>22, Kinds
  DEF Answer, Deliver, buttonVars, keyVars, voteVars, listenerVars, netVars,
      serverVars, SaidInv, ReadySaid, RegisterInv
<1>23. CASE SendUpdate
  BY <1>23, Kinds
  DEF SendUpdate, Deliver, buttonVars, keyVars, voteVars, listenerVars, netVars,
      serverVars, SaidInv, ReadySaid, RegisterInv
<1>24. CASE StartGame
  BY <1>24, Kinds
  DEF StartGame, buttonVars, keyVars, voteVars, listenerVars, netVars, serverVars,
      SaidInv, ReadySaid, RegisterInv
<1>25. CASE Break
  BY <1>25, Kinds
  DEF Break, buttonVars, keyVars, voteVars, listenerVars, netVars, serverVars,
      SaidInv, ReadySaid, RegisterInv
<1>26. CASE UNCHANGED vars
  BY <1>26 DEF vars, buttonVars, keyVars, voteVars, listenerVars, netVars,
      serverVars, SaidInv, ReadySaid
<1> QED
  BY <1>1, <1>2, <1>3, <1>4, <1>5, <1>6, <1>7, <1>8, <1>9, <1>10, <1>11, <1>12,
      <1>13, <1>14, <1>15, <1>16, <1>17, <1>18, <1>19, <1>20, <1>21, <1>22, <1>23,
      <1>24, <1>25, <1>26
  DEF Next, UserStep, HandlerStep, ListenerStep, ServerStep

LEMMA ReadyStays ==
    ASSUME RegisterInv, SaidInv, ReadySaid, [Next]_vars PROVE ReadySaid'
<1>1. CASE ConnectFails
  BY <1>1
  DEF ConnectFails, buttonVars, keyVars, voteVars, listenerVars, netVars,
      serverVars, ReadySaid
<1>2. CASE Register
  BY <1>2, Kinds
  DEF Register, buttonVars, keyVars, voteVars, listenerVars, netVars, serverVars,
      ReadySaid, RegisterInv
<1>3. CASE RegisterReturns
  BY <1>3
  DEF RegisterReturns, RegisterTakes, buttonVars, keyVars, voteVars, listenerVars,
      netVars, serverVars, ReadySaid
<1>4. CASE RegisterFails
  BY <1>4
  DEF RegisterFails, buttonVars, keyVars, voteVars, listenerVars, netVars,
      serverVars, ReadySaid
<1>5. CASE Ready
  BY <1>5
  DEF Ready, HasId, ChangeClientId, buttonVars, keyVars, voteVars, listenerVars,
      netVars, serverVars, ReadySaid
<1>6. CASE InitiateReady
  BY <1>6, Kinds
  DEF InitiateReady, Sends, SendRaises, Unheard, Say, FailReady, buttonVars, keyVars, voteVars, listenerVars,
      netVars, serverVars, ReadySaid, SaidInv
<1>7. CASE AddKeyListener
  BY <1>7
  DEF AddKeyListener, buttonVars, keyVars, voteVars, listenerVars, netVars,
      serverVars, ReadySaid
<1>8. CASE SendVote
  BY <1>8, SayAction, Kinds
  DEF SendVote, Sends, SendRaises, Unheard, Say, buttonVars, keyVars, voteVars, listenerVars, netVars,
      serverVars, ReadySaid
<1>9. ASSUME NEW d \in Direction, Press(d) PROVE ReadySaid'
  BY <1>9
  DEF Press, AddDirection, Modify, Listening, buttonVars, keyVars, voteVars,
      listenerVars, netVars, serverVars, ReadySaid
<1>10. ASSUME NEW d \in Direction, Release(d) PROVE ReadySaid'
  BY <1>10
  DEF Release, RemoveDirection, Modify, Listening, buttonVars, keyVars, voteVars,
      listenerVars, netVars, serverVars, ReadySaid
<1>11. CASE PressSpace
  BY <1>11, SayAction, Kinds
  DEF PressSpace, Sends, SendRaises, Unheard, Say, Listening, buttonVars, keyVars, voteVars, listenerVars,
      netVars, serverVars, ReadySaid
<1>12. CASE LoseFocus
  BY <1>12
  DEF LoseFocus, buttonVars, keyVars, voteVars, listenerVars, netVars, serverVars,
      ReadySaid
<1>13. CASE RegainFocus
  BY <1>13
  DEF RegainFocus, buttonVars, keyVars, voteVars, listenerVars, netVars, serverVars,
      ReadySaid
<1>14. CASE CheckRunning
  BY <1>14
  DEF CheckRunning, buttonVars, keyVars, voteVars, listenerVars, netVars,
      serverVars, ReadySaid
<1>15. CASE ReadLine
  BY <1>15
  DEF ReadLine, TakeLine, IsFrameOver, buttonVars, keyVars, voteVars, listenerVars,
      netVars, serverVars, ReadySaid
<1>16. CASE CopyDirections
  BY <1>16
  DEF CopyDirections, Die, buttonVars, keyVars, voteVars, listenerVars, netVars,
      serverVars, ReadySaid
<1>17. ASSUME NEW d \in Direction, SendDirection(d) PROVE ReadySaid'
  BY <1>17, SayAction, Kinds
  DEF SendDirection, Sends, SendRaises, Unheard, Say, Die, buttonVars, keyVars, voteVars, listenerVars, netVars,
      serverVars, ReadySaid
<1>18. CASE ShowUpdate
  BY <1>18
  DEF ShowUpdate, Die, buttonVars, keyVars, voteVars, listenerVars, netVars,
      serverVars, ReadySaid
<1>19. CASE HalfFrame
  BY <1>19
  DEF HalfFrame, buttonVars, keyVars, voteVars, listenerVars, netVars, serverVars,
      ReadySaid
<1>20. CASE Close
  BY <1>20
  DEF Close, buttonVars, keyVars, voteVars, listenerVars, netVars, serverVars,
      ReadySaid
<1>21. CASE Joined
  BY <1>21
  DEF Joined, buttonVars, keyVars, voteVars, listenerVars, netVars, serverVars,
      ReadySaid
<1>22. CASE Answer
  BY <1>22
  DEF Answer, Deliver, buttonVars, keyVars, voteVars, listenerVars, netVars,
      serverVars, ReadySaid
<1>23. CASE SendUpdate
  BY <1>23
  DEF SendUpdate, Deliver, buttonVars, keyVars, voteVars, listenerVars, netVars,
      serverVars, ReadySaid
<1>24. CASE StartGame
  BY <1>24
  DEF StartGame, buttonVars, keyVars, voteVars, listenerVars, netVars, serverVars,
      ReadySaid
<1>25. CASE Break
  BY <1>25
  DEF Break, buttonVars, keyVars, voteVars, listenerVars, netVars, serverVars,
      ReadySaid
<1>26. CASE UNCHANGED vars
  BY <1>26 DEF vars, buttonVars, keyVars, voteVars, listenerVars, netVars,
      serverVars, ReadySaid
<1> QED
  BY <1>1, <1>2, <1>3, <1>4, <1>5, <1>6, <1>7, <1>8, <1>9, <1>10, <1>11, <1>12,
      <1>13, <1>14, <1>15, <1>16, <1>17, <1>18, <1>19, <1>20, <1>21, <1>22, <1>23,
      <1>24, <1>25, <1>26
  DEF Next, UserStep, HandlerStep, ListenerStep, ServerStep

(* What of the lines is left, or gets longer. *)
LEMMA Shorter ==
    ASSUME NEW s \in Seq(Line), s # << >>
    PROVE  /\ Head(s) \in {s[i] : i \in DOMAIN s}
           /\ {Tail(s)[i] : i \in DOMAIN Tail(s)} \subseteq {s[i] : i \in DOMAIN s}
<1>1. /\ Len(s) \in Nat /\ Len(s) >= 1 /\ DOMAIN s = 1..Len(s)
      /\ DOMAIN Tail(s) = 1..Len(s)-1 /\ Head(s) = s[1]
      /\ \A i \in 1..Len(s)-1 : Tail(s)[i] = s[i+1] /\ i+1 \in 1..Len(s)
  OBVIOUS
<1> QED
  BY <1>1

LEMMA Longer ==
    ASSUME NEW s \in Seq(Line), NEW l \in Line
    PROVE  {Append(s, l)[i] : i \in DOMAIN Append(s, l)} = {s[i] : i \in DOMAIN s} \cup {l}
<1>1. /\ Len(s) \in Nat /\ DOMAIN s = 1..Len(s)
      /\ DOMAIN Append(s, l) = 1..Len(s)+1
      /\ \A i \in 1..Len(s) : Append(s, l)[i] = s[i] /\ i \in 1..Len(s)+1
      /\ Append(s, l)[Len(s)+1] = l /\ Len(s)+1 \in 1..Len(s)+1
      /\ \A i \in 1..Len(s)+1 : i \in 1..Len(s) \/ i = Len(s)+1
  OBVIOUS
<1> QED
  BY <1>1

LEMMA SeenNext ==
    ASSUME TypeOK, SeenInv, [Next]_vars PROVE SeenInv'
<1> USE DEF SeenInv
<1>1. down \in Seq(Line)
  BY DEF TypeOK
<1>2. CASE UNCHANGED <<first, down, serverVars>>
  BY <1>2 DEF serverVars
<1>3. CASE RegisterReturns
  BY <1>1, <1>3, Shorter DEF RegisterReturns, RegisterTakes, serverVars
<1>4. CASE ReadLine
  BY <1>1, <1>4, Shorter DEF ReadLine, TakeLine, serverVars
<1>5. CASE Joined \/ Break
  BY <1>5 DEF Joined, Break, serverVars
<1>6. CASE Answer
  BY <1>6 DEF Answer, Deliver
<1>7. CASE SendUpdate
  <2>1. PICK l \in Update : Deliver(l)
    BY <1>7 DEF SendUpdate
  <2>2. down' = Append(down, l) /\ l \in Line /\ l # "id" /\ UNCHANGED first
    BY <2>1 DEF Deliver, Update, Line
  <2>3. {down'[i] : i \in DOMAIN down'} = {down[i] : i \in DOMAIN down} \cup {l}
    BY <1>1, <2>2, Longer
  <2> QED
    BY <1>7, <2>2, <2>3 DEF SendUpdate
<1>8. CASE StartGame
  BY <1>8 DEF StartGame, netVars
<1>9. CASE UserStep
  BY <1>2, <1>9 DEF UserStep, ConnectFails, Register, Ready, SendVote, Press, Release,
     PressSpace, LoseFocus, RegainFocus, Close, netVars
<1>10. CASE HandlerStep
  <2>1. CASE RegisterFails \/ InitiateReady \/ AddKeyListener
    BY <1>2, <2>1 DEF RegisterFails, InitiateReady, AddKeyListener, netVars
  <2> QED
    BY <1>3, <1>5, <1>10, <2>1 DEF HandlerStep
<1>11. CASE ListenerStep
  <2>1. CASE CheckRunning \/ CopyDirections \/ ShowUpdate
    BY <1>2, <2>1 DEF CheckRunning, CopyDirections, ShowUpdate, netVars
  <2>2. ASSUME NEW d \in Direction, SendDirection(d) PROVE SeenInv'
    BY <1>2, <2>2 DEF SendDirection
  <2> QED
    BY <1>4, <1>11, <2>1, <2>2 DEF ListenerStep
<1>12. CASE HalfFrame \/ UNCHANGED vars
  BY <1>2, <1>12 DEF HalfFrame, vars, netVars
<1> QED
  BY <1>5, <1>6, <1>7, <1>8, <1>9, <1>10, <1>11, <1>12 DEF Next, ServerStep

LEMMA JoinNext ==
    ASSUME TypeOK, RegisterInv, SaidInv, SeenInv, JoinInv, [Next]_vars PROVE JoinInv'
<1> USE DEF JoinInv
<1>1. ReadySaid => ReadySaid'
  BY ReadyStays
<1>2. down \in Seq(Line) /\ line \in Line
  BY DEF TypeOK
<1>3. ASSUME Sent' \subseteq Sent, UNCHANGED <<joiner, game, behind, death>>
      PROVE  JoinInv'
  BY <1>1, <1>3
<1>4. ASSUME NEW l \in Line, Deliver(l), l \in Update => game = "running",
             l = "absent" => behind, ~behind' \/ behind' = behind
      PROVE  JoinInv'
  <2>1. Sent' = Sent \cup {l} /\ UNCHANGED <<joiner, game, death>>
    BY <1>2, <1>4, Longer DEF Sent, Deliver, listenerVars
  <2> QED
    BY <1>1, <1>4, <2>1
<1>5. CASE UNCHANGED <<line, down, serverVars, death>>
  BY <1>3, <1>5 DEF Sent, serverVars
<1>6. CASE RegisterReturns
  <2>1. Sent' \subseteq Sent
    BY <1>2, <1>6, Shorter DEF RegisterReturns, RegisterTakes, Sent
  <2> QED
    BY <1>3, <1>6, <2>1 DEF RegisterReturns, RegisterTakes, serverVars
<1>7. CASE ReadLine
  <2>1. Sent' \subseteq Sent
    BY <1>2, <1>7, Shorter DEF ReadLine, TakeLine, Sent
  <2> QED
    BY <1>3, <1>7, <2>1 DEF ReadLine, TakeLine, serverVars
<1>8. CASE ShowUpdate
  <2>1. Sent' = Sent /\ UNCHANGED <<joiner, game, behind>>
    BY <1>8 DEF ShowUpdate, Sent, netVars, serverVars
  <2>2. death' = death \/ (line \in Update /\ (line = "absent" \/ ~panel_id))
    BY <1>8 DEF ShowUpdate
  <2>3. line \in Sent /\ (ReadySaid => panel_id)
    BY DEF Sent, SaidInv
  <2> QED
    BY <1>1, <2>1, <2>2, <2>3
<1>9. CASE UNCHANGED <<line, down, serverVars>> /\ death' \in
    {"ConcurrentModification", "Runtime"}
  BY <1>1, <1>9 DEF Sent, serverVars
<1>10. CASE Joined \/ Break
  <2>1. Sent' \subseteq Sent
    <3>1. down' \in {down, << >>} /\ line' = line
      BY <1>10 DEF Joined, Break, listenerVars
    <3> QED
      BY <3>1 DEF Sent
  <2> QED
    BY <1>3, <1>10, <2>1 DEF Joined, Break, listenerVars, serverVars
<1>11. CASE Answer
  BY <1>4, <1>11 DEF Answer, Line, Update
<1>12. CASE SendUpdate
  BY <1>4, <1>12 DEF SendUpdate, Line
<1>13. CASE StartGame
  <2>1. ~joiner' => ReadySaid
    BY <1>13, HasReady DEF StartGame
  <2>2. ReadySaid => ~behind'
    BY <1>13 DEF StartGame, SaidInv, SeenInv
  <2>3. ~joiner /\ game' = "running" /\ Sent' = Sent /\ death' = death
    BY <1>13 DEF StartGame, Sent, listenerVars, netVars
  <2> QED
    BY <1>1, <2>1, <2>2, <2>3
<1>14. CASE UserStep
  <2>1. UNCHANGED <<line, down, serverVars, death>>
    BY <1>14 DEF UserStep, ConnectFails, Register, Ready, SendVote, Press, Release,
        PressSpace, LoseFocus, RegainFocus, Close, listenerVars, netVars
  <2> QED
    BY <1>5, <2>1
<1>15. CASE HandlerStep
  <2>1. CASE RegisterFails \/ InitiateReady \/ AddKeyListener
    BY <1>5, <2>1 DEF RegisterFails, InitiateReady, AddKeyListener, listenerVars,
        netVars
  <2> QED
    BY <1>6, <1>10, <1>15, <2>1 DEF HandlerStep
<1>16. CASE ListenerStep
  <2>1. CASE CheckRunning
    BY <1>5, <2>1 DEF CheckRunning, netVars
  <2>2. CASE CopyDirections
    BY <1>5, <1>9, <2>2 DEF CopyDirections, Die, netVars
  <2>3. ASSUME NEW d \in Direction, SendDirection(d) PROVE JoinInv'
    BY <1>5, <1>9, <2>3 DEF SendDirection, Die
  <2> QED
    BY <1>7, <1>8, <1>16, <2>1, <2>2, <2>3 DEF ListenerStep
<1>17. CASE HalfFrame \/ UNCHANGED vars
  BY <1>5, <1>17 DEF HalfFrame, vars, listenerVars, netVars
<1> QED
  BY <1>10, <1>11, <1>12, <1>13, <1>14, <1>15, <1>16, <1>17 DEF Next, ServerStep

-----------------------------------------------------------------------------

(* The parts of TypeOK: what is counted or in a row, and all the rest. *)
QueueType ==
    /\ down \in Seq(Line) /\ Len(down) <= DownCap
    /\ credit \in 0..MaxCredit

StateType ==
    /\ edt \in {"idle", "answer", "ready", "keys", "join", "closed"}
    /\ register_on \in BOOLEAN /\ ready_on \in BOOLEAN
    /\ client_id \in BOOLEAN /\ panel_id \in BOOLEAN /\ key_listener \in BOOLEAN
    /\ held \subseteq Direction /\ directions \subseteq Direction
    /\ batch \subseteq Direction /\ changed \subseteq Direction
    /\ focus \in BOOLEAN /\ lost \subseteq Direction
    /\ editable \in BOOLEAN /\ text \in BOOLEAN
    /\ listener \in {"none", "new", "check", "wait", "copy", "send", "over", "dead"}
    /\ line \in Line
    /\ death \in {"none", "ConcurrentModification", "Runtime", "NullPointer"}
    /\ stopped \in BOOLEAN
    /\ conn \in {"none", "open", "broken"} /\ trouble \in BOOLEAN
    /\ first \in {"none"} \cup Line /\ printed \in BOOLEAN
    /\ answered \in BOOLEAN /\ behind \in BOOLEAN /\ joiner \in BOOLEAN
    /\ game \in {"lobby", "running"}

LEMMA TypeParts ==
    TypeOK <=> StateType /\ QueueType /\ said \in Seq({"REGISTER", "READY", "ACTION"})
  BY DEF TypeOK, StateType, QueueType

LEMMA Queues ==
    ASSUME NEW s \in Seq(Line), NEW l \in Line, Len(s) <= DownCap
    PROVE  /\ << >> \in Seq(Line) /\ Len(<< >>) <= DownCap
           /\ s # << >> => Head(s) \in Line /\ Tail(s) \in Seq(Line) /\ Len(Tail(s)) <= DownCap
           /\ Len(s) < DownCap => Append(s, l) \in Seq(Line) /\ Len(Append(s, l)) <= DownCap
<1>1. DownCap \in Nat /\ Len(s) \in Nat /\ Len(<< >>) = 0
  BY ClientAssumption
<1>2. s # << >> => Head(s) \in Line /\ Tail(s) \in Seq(Line) /\ Len(Tail(s)) = Len(s) - 1
  OBVIOUS
<1>3. Append(s, l) \in Seq(Line) /\ Len(Append(s, l)) = Len(s) + 1
  OBVIOUS
<1>4. << >> \in Seq(Line)
  OBVIOUS
<1> QED
  BY <1>1, <1>2, <1>3, <1>4

LEMMA QueueNext ==
    ASSUME QueueType, KeysInv, [Next]_vars PROVE QueueType'
<1>1. CASE ConnectFails
  BY <1>1
  DEF ConnectFails, buttonVars, keyVars, voteVars, listenerVars, netVars,
      serverVars, QueueType
<1>2. CASE Register
  BY <1>2
  DEF Register, buttonVars, keyVars, voteVars, listenerVars, netVars, serverVars,
      QueueType
<1>3. CASE RegisterReturns
  BY <1>3, Queues
  DEF RegisterReturns, RegisterTakes, buttonVars, keyVars, voteVars, listenerVars,
      netVars, serverVars, QueueType
<1>4. CASE RegisterFails
  BY <1>4
  DEF RegisterFails, buttonVars, keyVars, voteVars, listenerVars, netVars,
      serverVars, QueueType
<1>5. CASE Ready
  BY <1>5
  DEF Ready, HasId, ChangeClientId, buttonVars, keyVars, voteVars, listenerVars,
      netVars, serverVars, QueueType
<1>6. CASE InitiateReady
  BY <1>6
  DEF InitiateReady, Sends, SendRaises, Unheard, Say, FailReady, buttonVars, keyVars, voteVars, listenerVars,
      netVars, serverVars, QueueType
<1>7. CASE AddKeyListener
  BY <1>7
  DEF AddKeyListener, buttonVars, keyVars, voteVars, listenerVars, netVars,
      serverVars, QueueType
<1>8. CASE SendVote
  BY <1>8
  DEF SendVote, Sends, SendRaises, Unheard, Say, buttonVars, keyVars, voteVars, listenerVars, netVars,
      serverVars, QueueType
<1>9. ASSUME NEW d \in Direction, Press(d) PROVE QueueType'
  BY <1>9
  DEF Press, AddDirection, Modify, Listening, buttonVars, keyVars, voteVars,
      listenerVars, netVars, serverVars, QueueType
<1>10. ASSUME NEW d \in Direction, Release(d) PROVE QueueType'
  BY <1>10
  DEF Release, RemoveDirection, Modify, Listening, buttonVars, keyVars, voteVars,
      listenerVars, netVars, serverVars, QueueType
<1>11. CASE PressSpace
  BY <1>11
  DEF PressSpace, Sends, SendRaises, Unheard, Say, Listening, buttonVars, keyVars, voteVars, listenerVars,
      netVars, serverVars, QueueType
<1>12. CASE LoseFocus
  BY <1>12
  DEF LoseFocus, buttonVars, keyVars, voteVars, listenerVars, netVars, serverVars,
      QueueType
<1>13. CASE RegainFocus
  BY <1>13
  DEF RegainFocus, buttonVars, keyVars, voteVars, listenerVars, netVars, serverVars,
      QueueType
<1>14. CASE CheckRunning
  BY <1>14
  DEF CheckRunning, buttonVars, keyVars, voteVars, listenerVars, netVars,
      serverVars, QueueType
<1>15. CASE ReadLine
  BY <1>15, Queues
  DEF ReadLine, TakeLine, IsFrameOver, buttonVars, keyVars, voteVars, listenerVars,
      netVars, serverVars, QueueType
<1>16. CASE CopyDirections
  BY <1>16
  DEF CopyDirections, Die, buttonVars, keyVars, voteVars, listenerVars, netVars,
      serverVars, QueueType
<1>17. ASSUME NEW d \in Direction, SendDirection(d) PROVE QueueType'
  BY <1>17
  DEF SendDirection, Sends, SendRaises, Unheard, Say, Die, buttonVars, keyVars, voteVars, listenerVars, netVars,
      serverVars, QueueType
<1>18. CASE ShowUpdate
  BY <1>18, ClientAssumption
  DEF ShowUpdate, Die, buttonVars, keyVars, voteVars, listenerVars, netVars,
      serverVars, QueueType, KeysInv
<1>19. CASE HalfFrame
  BY <1>19, ClientAssumption
  DEF HalfFrame, buttonVars, keyVars, voteVars, listenerVars, netVars, serverVars,
      QueueType
<1>20. CASE Close
  BY <1>20
  DEF Close, buttonVars, keyVars, voteVars, listenerVars, netVars, serverVars,
      QueueType
<1>21. CASE Joined
  BY <1>21, Queues
  DEF Joined, buttonVars, keyVars, voteVars, listenerVars, netVars, serverVars,
      QueueType
<1>22. CASE Answer
  BY <1>22, Queues
  DEF Answer, Deliver, buttonVars, keyVars, voteVars, listenerVars, netVars,
      serverVars, QueueType, Line
<1>23. CASE SendUpdate
  BY <1>23, Queues
  DEF SendUpdate, Deliver, buttonVars, keyVars, voteVars, listenerVars, netVars,
      serverVars, QueueType, Line
<1>24. CASE StartGame
  BY <1>24
  DEF StartGame, buttonVars, keyVars, voteVars, listenerVars, netVars, serverVars,
      QueueType
<1>25. CASE Break
  <2>1. down' \in {down, << >>} /\ credit' = credit
    BY <1>25 DEF Break, listenerVars
  <2>2. << >> \in Seq(Line) /\ Len(<< >>) = 0
    BY EmptySeq
  <2>3. CASE down' = down
    BY <2>1, <2>3 DEF QueueType
  <2>4. CASE down' = << >>
    BY <2>1, <2>2, <2>4, ClientAssumption DEF QueueType
  <2> QED
    BY <2>1, <2>3, <2>4
<1>26. CASE UNCHANGED vars
  BY <1>26 DEF vars, buttonVars, keyVars, voteVars, listenerVars, netVars,
      serverVars, QueueType
<1> QED
  BY <1>1, <1>2, <1>3, <1>4, <1>5, <1>6, <1>7, <1>8, <1>9, <1>10, <1>11, <1>12,
      <1>13, <1>14, <1>15, <1>16, <1>17, <1>18, <1>19, <1>20, <1>21, <1>22, <1>23,
      <1>24, <1>25, <1>26
  DEF Next, UserStep, HandlerStep, ListenerStep, ServerStep

LEMMA StateNext ==
    ASSUME QueueType, StateType, [Next]_vars PROVE StateType'
<1>1. CASE ConnectFails
  BY <1>1
  DEF ConnectFails, buttonVars, keyVars, voteVars, listenerVars, netVars,
      serverVars, StateType
<1>2. CASE Register
  <2>1. register_on' \in BOOLEAN /\ ready_on' \in BOOLEAN /\ listener' \in {"none",
      "new", "check", "wait", "copy", "send", "over", "dead"} /\ conn' \in {"none",
      "open", "broken"} /\ edt' \in {"idle", "answer", "ready", "keys", "join",
      "closed"} /\ trouble' \in BOOLEAN
    BY <1>2 DEF Register, StateType
  <2>2. UNCHANGED <<client_id, panel_id, key_listener, held, focus, lost, editable,
      text, directions, line, batch, changed, death, stopped, first, printed, answered, game,
      behind, joiner>>
    BY <1>2 DEF Register, buttonVars, keyVars, voteVars, listenerVars, netVars,
        serverVars
  <2> QED
    BY <2>1, <2>2 DEF StateType
<1>3. CASE RegisterReturns
  BY <1>3, Queues
  DEF RegisterReturns, RegisterTakes, buttonVars, keyVars, voteVars, listenerVars,
      netVars, serverVars, StateType, QueueType
<1>4. CASE RegisterFails
  BY <1>4
  DEF RegisterFails, buttonVars, keyVars, voteVars, listenerVars, netVars,
      serverVars, StateType
<1>5. CASE Ready
  <2>1. edt' \in {"idle", "answer", "ready", "keys", "join", "closed"} /\ ready_on'
      \in BOOLEAN /\ panel_id' \in BOOLEAN
    BY <1>5 DEF Ready, HasId, ChangeClientId, StateType
  <2>2. UNCHANGED <<register_on, client_id, key_listener, held, focus, lost,
      editable, text, directions, listener, line, batch, changed, death, stopped,
      conn, trouble, first, printed, answered, game, behind, joiner>>
    BY <1>5 DEF Ready, HasId, ChangeClientId, buttonVars, keyVars, voteVars,
        listenerVars, netVars, serverVars
  <2> QED
    BY <2>1, <2>2 DEF StateType
<1>6. CASE InitiateReady
  <2>1. edt' \in {"idle", "answer", "ready", "keys", "join", "closed"} /\ ready_on'
      \in BOOLEAN /\ printed' \in BOOLEAN /\ trouble' \in BOOLEAN
    BY <1>6 DEF InitiateReady, Sends, SendRaises, Unheard, Say, FailReady, StateType
  <2>2. UNCHANGED <<register_on, client_id, panel_id, key_listener, held, focus,
      lost, editable, text, directions, listener, line, batch, changed, death,
      stopped, conn, first, answered, game, behind, joiner>>
    BY <1>6 DEF InitiateReady, Sends, SendRaises, Unheard, Say, FailReady, buttonVars, keyVars, voteVars,
        listenerVars, netVars, serverVars
  <2> QED
    BY <2>1, <2>2 DEF StateType
<1>7. CASE AddKeyListener
  BY <1>7
  DEF AddKeyListener, buttonVars, keyVars, voteVars, listenerVars, netVars,
      serverVars, StateType
<1>8. CASE SendVote
  <2>1. focus' \in BOOLEAN /\ text' \in BOOLEAN /\ trouble' \in BOOLEAN
    BY <1>8 DEF SendVote, Sends, SendRaises, Unheard, Say, StateType
  <2>2. UNCHANGED <<edt, register_on, ready_on, client_id, panel_id, key_listener,
      held, lost, editable, directions, listener, line, batch, changed, death,
      stopped, conn, first, printed, answered, game, behind, joiner>>
    BY <1>8 DEF SendVote, Sends, SendRaises, Unheard, Say, buttonVars, keyVars, voteVars, listenerVars, netVars,
        serverVars
  <2> QED
    BY <2>1, <2>2 DEF StateType
<1>9. ASSUME NEW d \in Direction, Press(d) PROVE StateType'
  BY <1>9
  DEF Press, AddDirection, Modify, Listening, buttonVars, keyVars, voteVars,
      listenerVars, netVars, serverVars, StateType
<1>10. ASSUME NEW d \in Direction, Release(d) PROVE StateType'
  <2>1. held' \subseteq Direction /\ directions' \subseteq Direction /\ changed'
      \subseteq Direction /\ lost' \subseteq Direction
    BY <1>10 DEF Release, RemoveDirection, Modify, Listening, StateType
  <2>2. UNCHANGED <<edt, register_on, ready_on, client_id, panel_id, key_listener,
      focus, editable, text, listener, line, batch, death, stopped, conn, trouble, first, printed,
      answered, game, behind, joiner>>
    BY <1>10 DEF Release, RemoveDirection, Modify, Listening, buttonVars, keyVars,
        voteVars, listenerVars, netVars, serverVars
  <2> QED
    BY <2>1, <2>2 DEF StateType
<1>11. CASE PressSpace
  <2>1. trouble' \in BOOLEAN
    BY <1>11 DEF PressSpace, Sends, SendRaises, StateType
  <2>2. UNCHANGED <<edt, register_on, ready_on, client_id, panel_id, key_listener,
      held, focus, lost, editable, text, directions, listener, line, batch, changed,
      death, stopped, conn, first, printed, answered, game, behind, joiner>>
    BY <1>11 DEF PressSpace, buttonVars, keyVars, voteVars, listenerVars, serverVars
  <2> QED
    BY <2>1, <2>2 DEF StateType
<1>12. CASE LoseFocus
  <2>1. focus' \in BOOLEAN /\ text' \in BOOLEAN
    BY <1>12 DEF LoseFocus, StateType
  <2>2. UNCHANGED <<edt, register_on, ready_on, client_id, panel_id, key_listener,
      held, lost, editable, directions, listener, line, batch, changed, death,
      stopped, conn, trouble, first, printed, answered, game, behind, joiner>>
    BY <1>12 DEF LoseFocus, buttonVars, keyVars, voteVars, listenerVars, netVars,
        serverVars
  <2> QED
    BY <2>1, <2>2 DEF StateType
<1>13. CASE RegainFocus
  BY <1>13
  DEF RegainFocus, buttonVars, keyVars, voteVars, listenerVars, netVars, serverVars,
      StateType
<1>14. CASE CheckRunning
  BY <1>14
  DEF CheckRunning, buttonVars, keyVars, voteVars, listenerVars, netVars,
      serverVars, StateType
<1>15. CASE ReadLine
  BY <1>15, Queues
  DEF ReadLine, TakeLine, IsFrameOver, buttonVars, keyVars, voteVars, listenerVars,
      netVars, serverVars, StateType, QueueType
<1>16. CASE CopyDirections
  BY <1>16
  DEF CopyDirections, Die, buttonVars, keyVars, voteVars, listenerVars, netVars,
      serverVars, StateType
<1>17. ASSUME NEW d \in Direction, SendDirection(d) PROVE StateType'
  <2>1. trouble' \in BOOLEAN /\ batch' \subseteq Direction /\ listener' \in {"none",
      "new", "check", "wait", "copy", "send", "over", "dead"} /\ death' \in {"none",
      "ConcurrentModification", "Runtime", "NullPointer"}
    BY <1>17 DEF SendDirection, Sends, SendRaises, Die, StateType
  <2>2. UNCHANGED <<edt, register_on, ready_on, client_id, panel_id, key_listener,
      held, focus, lost, editable, text, directions, line, changed, stopped, conn,
      first, printed, answered, game, behind, joiner>>
    BY <1>17 DEF SendDirection, buttonVars, keyVars, voteVars, serverVars
  <2> QED
    BY <2>1, <2>2 DEF StateType
<1>18. CASE ShowUpdate
  <2>1. listener' \in {"none", "new", "check", "wait", "copy", "send", "over",
      "dead"} /\ death' \in {"none", "ConcurrentModification", "Runtime",
      "NullPointer"} /\ editable' \in BOOLEAN
    BY <1>18 DEF ShowUpdate, Die, StateType
  <2>2. UNCHANGED <<edt, register_on, ready_on, client_id, panel_id, key_listener,
      held, focus, lost, text, directions, line, batch, changed, stopped, conn, trouble,
      first, printed, answered, game, behind, joiner>>
    BY <1>18 DEF ShowUpdate, Die, buttonVars, keyVars, voteVars, listenerVars,
        netVars, serverVars
  <2> QED
    BY <2>1, <2>2 DEF StateType
<1>19. CASE HalfFrame
  BY <1>19
  DEF HalfFrame, buttonVars, keyVars, voteVars, listenerVars, netVars, serverVars,
      StateType
<1>20. CASE Close
  BY <1>20
  DEF Close, buttonVars, keyVars, voteVars, listenerVars, netVars, serverVars,
      StateType
<1>21. CASE Joined
  BY <1>21
  DEF Joined, buttonVars, keyVars, voteVars, listenerVars, netVars, serverVars,
      StateType
<1>22. CASE Answer
  BY <1>22
  DEF Answer, Deliver, buttonVars, keyVars, voteVars, listenerVars, netVars,
      serverVars, StateType
<1>23. CASE SendUpdate
  <2>1. behind' \in BOOLEAN
    BY <1>23 DEF SendUpdate, Deliver, StateType
  <2>2. UNCHANGED <<edt, register_on, ready_on, client_id, panel_id, key_listener,
      held, focus, lost, editable, text, directions, listener, line, batch, changed,
      death, stopped, conn, trouble, first, printed, answered, game, joiner>>
    BY <1>23 DEF SendUpdate, Deliver, buttonVars, keyVars, voteVars, listenerVars,
        netVars, serverVars
  <2> QED
    BY <2>1, <2>2 DEF StateType
<1>24. CASE StartGame
  BY <1>24
  DEF StartGame, buttonVars, keyVars, voteVars, listenerVars, netVars, serverVars,
      StateType
<1>25. CASE Break
  BY <1>25
  DEF Break, buttonVars, keyVars, voteVars, listenerVars, netVars, serverVars,
      StateType
<1>26. CASE UNCHANGED vars
  BY <1>26 DEF vars, buttonVars, keyVars, voteVars, listenerVars, netVars,
      serverVars, StateType
<1> QED
  BY <1>1, <1>2, <1>3, <1>4, <1>5, <1>6, <1>7, <1>8, <1>9, <1>10, <1>11, <1>12,
      <1>13, <1>14, <1>15, <1>16, <1>17, <1>18, <1>19, <1>20, <1>21, <1>22, <1>23,
      <1>24, <1>25, <1>26
  DEF Next, UserStep, HandlerStep, ListenerStep, ServerStep

LEMMA TypeNext ==
    ASSUME TypeOK, RegisterInv, ActingInv, SaidInv, KeysInv, [Next]_vars PROVE TypeOK'
<1>1. StateType /\ QueueType
  BY TypeParts
<1>2. StateType' /\ QueueType'
  BY <1>1, StateNext, QueueNext
<1>3. said' \in Seq({"REGISTER", "READY", "ACTION"})
  BY SaidNext, Kinds DEF SaidInv, Word
<1> QED
  BY <1>2, <1>3 DEF TypeOK, StateType, QueueType

-----------------------------------------------------------------------------

(* Everything that is invariant. *)
ClientInv ==
    /\ TypeOK /\ RegisterInv /\ SaidInv /\ ActingInv /\ KeysInv /\ SeenInv /\ JoinInv

(* Who starts while a game is running joins it, without a mouse in it yet. *)
LEMMA Joiners ==
    ASSUME Init
    PROVE  /\ game \in {"lobby", "running"}
           /\ (joiner <=> game = "running") /\ (behind <=> joiner)
<1>1. game \in {"lobby", "running"} /\ behind = joiner /\ joiner = (game = "running")
  BY DEF Init
<1>2. CASE game = "running"
  BY <1>1, <1>2
<1>3. CASE game = "lobby"
  BY <1>1, <1>3
<1> QED
  BY <1>1, <1>2, <1>3

LEMMA ClientInit == Init => ClientInv
<1> SUFFICES ASSUME Init PROVE ClientInv
  OBVIOUS
<1>1. TypeOK
  <2>1. QueueType
    BY ClientAssumption DEF Init, QueueType
  <2>2. StateType
    BY DEF Init, StateType, Line
  <2>3. said \in Seq({"REGISTER", "READY", "ACTION"})
    BY DEF Init
  <2> QED
    BY <2>1, <2>2, <2>3, TypeParts
<1>2. RegisterInv /\ ActingInv /\ KeysInv
  BY DEF Init, RegisterInv, ActingInv, KeysInv
<1>3. SaidInv
  BY Kinds DEF Init, SaidInv, ReadySaid
<1>4. (joiner <=> game = "running") /\ (behind <=> joiner)
  BY Joiners
<1>5. JoinInv
  <2>1. Sent = {"id"}
    BY DEF Init, Sent
  <2> QED
    BY <1>4, <2>1 DEF Init, JoinInv, Update
<1>6. SeenInv
  <2>1. first # "id" /\ "id" \notin {down[i] : i \in DOMAIN down}
    BY DEF Init
  <2> QED
    BY <1>4, <2>1 DEF SeenInv
<1> QED
  BY <1>1, <1>2, <1>3, <1>5, <1>6 DEF ClientInv

LEMMA ClientNext == ClientInv /\ [Next]_vars => ClientInv'
  BY TypeNext, RegisterNext, SaidNext, ActingNext, KeysNext, SeenNext,
     JoinNext
  DEF ClientInv

LEMMA ClientCorrect == Spec => []ClientInv
  BY ClientInit, ClientNext, PTL DEF Spec

\* The types, and that no credit is spent that was not there.
THEOREM TypeCorrect == Spec => []TypeOK
<1>1. ClientInv => TypeOK
  BY DEF ClientInv
<1> QED
  BY <1>1, ClientCorrect, PTL

\* The client keeps to the protocol whatever its buttons, threads and failures do.
THEOREM SpeaksProtocolCorrect == Spec => []SpeaksProtocol
<1>1. ClientInv => SpeaksProtocol
  <2> SUFFICES ASSUME ClientInv PROVE SpeaksProtocol
    OBVIOUS
  <2>1. said \in {<< >>, Registered, MadeReady, Acting}
    BY DEF ClientInv, SaidInv
  <2>2. Has("READY") => first = "id"
    BY HasReady DEF ClientInv, SaidInv
  <2> QED
    BY <2>1, <2>2 DEF SpeaksProtocol, Registered, MadeReady, Acting
<1> QED
  BY <1>1, ClientCorrect, PTL

\* Only a client that had not said READY when the game began can fail to find
\* its mouse.
THEOREM OnlyJoinersMissTheirMouseCorrect == Spec => []OnlyJoinersMissTheirMouse
<1>1. ClientInv => OnlyJoinersMissTheirMouse
  BY DEF ClientInv, JoinInv, OnlyJoinersMissTheirMouse
<1> QED
  BY <1>1, ClientCorrect, PTL

\* A user with an id can always press a button until READY has been printed, also
\* when some of what is printed is lost and some raises an exception.
THEOREM ButtonUntilReadyPrintedCorrect == Spec => []ButtonUntilReadyPrinted
<1>1. ClientInv => ButtonUntilReadyPrinted
  BY DEF ClientInv, SaidInv, ButtonUntilReadyPrinted
<1> QED
  BY <1>1, ClientCorrect, PTL

\* The directions that are sent are of keys that are down or have just been.
THEOREM SendsHeldKeysCorrect == Spec => []SendsHeldKeys
<1>1. ClientInv => SendsHeldKeys
  BY DEF ClientInv, KeysInv, SendsHeldKeys
<1> QED
  BY <1>1, ClientCorrect, PTL

-----------------------------------------------------------------------------
(* The id and its two readers: register on the event thread, and the       *)
(* listener, read from one BufferedReader.                                 *)

\* Until register has returned nobody else takes the id that the server has
\* sent: the event thread, which waits for it, cannot wait in vain for a line
\* that the listener has thrown away.
IdIsNotTaken ==
    edt = "answer" /\ answered /\ conn = "open" => \E i \in DOMAIN down : down[i] = "id"

AnswerInv == IdIsNotTaken /\ (conn = "none" => ~answered)

LEMMA AnswerNext ==
    ASSUME TypeOK, RegisterInv, AnswerInv, [Next]_vars PROVE AnswerInv'
<1> USE DEF AnswerInv, IdIsNotTaken
<1>1. down \in Seq(Line)
  BY DEF TypeOK
<1>2. ASSUME UNCHANGED <<conn, down, answered>>, edt' = "answer" => edt = "answer"
      PROVE  AnswerInv'
  BY <1>2
<1>3. ASSUME edt' # "answer", UNCHANGED answered, conn' = "none" => conn = "none"
      PROVE  AnswerInv'
  BY <1>3
<1>4. CASE Register
  BY <1>4 DEF Register, RegisterInv, serverVars
<1>5. CASE RegisterReturns \/ RegisterFails \/ Joined
  BY <1>3, <1>5 DEF RegisterReturns, RegisterTakes, RegisterFails, Joined, netVars,
     serverVars
<1>6. CASE ReadLine
  <2>1. listener = "wait" /\ UNCHANGED <<edt, conn, answered>>
    BY <1>6 DEF ReadLine, TakeLine, serverVars
  <2> QED
    BY <1>3, <2>1 DEF RegisterInv
<1>7. CASE Break
  BY <1>7 DEF Break, serverVars
<1>8. CASE Answer
  <2>1. down' = Append(down, "id") /\ conn = "open" /\ conn' = conn
    BY <1>8 DEF Answer, Deliver
  <2>2. "id" \in {down'[i] : i \in DOMAIN down'}
    BY <1>1, <2>1, Longer DEF Line
  <2> QED
    BY <2>1, <2>2
<1>9. CASE SendUpdate
  <2>1. PICK l \in Line : Deliver(l)
    BY <1>9 DEF SendUpdate, Line
  <2>2. /\ down' = Append(down, l) /\ UNCHANGED <<edt, conn, answered>>
    BY <1>9, <2>1 DEF SendUpdate, Deliver
  <2>3. {down[i] : i \in DOMAIN down} \subseteq {down'[i] : i \in DOMAIN down'}
    BY <1>1, <2>2, Longer
  <2> QED
    BY <2>2, <2>3
<1>10. CASE StartGame \/ HalfFrame \/ UNCHANGED vars
  BY <1>2, <1>10 DEF StartGame, HalfFrame, vars, netVars, serverVars
<1>11. CASE UserStep
  <2>1. CASE Register
    BY <1>4, <2>1
  <2>2. CASE UserStep /\ ~Register
    <3>1. UNCHANGED <<conn, down, answered>> /\ edt = "idle" /\ edt' # "answer"
      BY <2>2 DEF UserStep, ConnectFails, Ready, SendVote, Press, Release,
          PressSpace, LoseFocus, RegainFocus, Close, netVars, serverVars
    <3> QED
      BY <1>2, <3>1
  <2> QED
    BY <1>11, <2>1, <2>2
<1>12. CASE HandlerStep
  <2>1. CASE InitiateReady \/ AddKeyListener
    BY <1>2, <2>1 DEF InitiateReady, AddKeyListener, netVars, serverVars
  <2> QED
    BY <1>5, <1>12, <2>1 DEF HandlerStep
<1>13. CASE ListenerStep
  <2>1. CASE CheckRunning \/ CopyDirections \/ ShowUpdate
    BY <1>2, <2>1 DEF CheckRunning, CopyDirections, ShowUpdate, netVars, serverVars
  <2>2. ASSUME NEW d \in Direction, SendDirection(d) PROVE AnswerInv'
    BY <1>2, <2>2 DEF SendDirection, serverVars
  <2> QED
    BY <1>6, <1>13, <2>1, <2>2 DEF ListenerStep
<1> QED
  BY <1>7, <1>8, <1>9, <1>10, <1>11, <1>12, <1>13 DEF Next, ServerStep

\* The id reaches register whatever is pressed and however updates of a running
\* game come before it or after it.
THEOREM IdIsNotTakenCorrect == Spec => []IdIsNotTaken
<1>1. Init => AnswerInv
  BY DEF Init, AnswerInv, IdIsNotTaken
<1>2. ClientInv /\ AnswerInv /\ [Next]_vars => AnswerInv'
  BY AnswerNext DEF ClientInv
<1>3. AnswerInv => IdIsNotTaken
  BY DEF AnswerInv
<1> QED
  BY <1>1, <1>2, <1>3, ClientCorrect, PTL DEF Spec

-----------------------------------------------------------------------------
(* The end of the listener.                                                *)

\* How many steps a listener that has been stopped has left.
StepsLeft ==
    CASE listener = "wait" -> Cardinality(Direction) + 4
      [] listener = "copy" -> Cardinality(Direction) + 3
      [] listener = "send" -> Cardinality(batch) + 2
      [] listener = "check" -> 1
      [] OTHER -> 0

\* Once Client.close has stopped it the listener runs out of steps: each that
\* it takes is one less, nobody else gives it any, and so the join of close
\* waits for no more than one line, one frame and the keys of that frame.
RunsOut ==
    [][stopped => /\ stopped'
                  /\ ListenerStep => StepsLeft' \in 0..StepsLeft - 1
                  /\ ~ListenerStep => UNCHANGED <<listener, batch>>]_vars

StopInv == stopped => edt \in {"join", "closed"}

LEMMA StopNext == ASSUME StopInv, [Next]_vars PROVE StopInv'
<1> USE DEF StopInv
<1>1. CASE UserStep
  BY <1>1 DEF UserStep, ConnectFails, Register, Ready, SendVote, Press, Release,
     PressSpace, LoseFocus, RegainFocus, Close
<1>2. CASE HandlerStep
  BY <1>2 DEF HandlerStep, RegisterReturns, RegisterTakes, RegisterFails,
     InitiateReady, AddKeyListener, Joined
<1>3. CASE ListenerStep
  BY <1>3 DEF ListenerStep, CheckRunning, ReadLine, TakeLine, CopyDirections,
     SendDirection, ShowUpdate
<1>4. CASE ServerStep
  BY <1>4 DEF ServerStep, Answer, SendUpdate, Deliver, StartGame, Break
<1>5. CASE HalfFrame \/ UNCHANGED vars
  BY <1>5 DEF HalfFrame, vars
<1> QED
  BY <1>1, <1>2, <1>3, <1>4, <1>5 DEF Next

LEMMA Keys ==
    ASSUME NEW b \in SUBSET Direction
    PROVE  /\ Cardinality(b) \in Nat /\ Cardinality(Direction) \in Nat
           /\ Cardinality(b) <= Cardinality(Direction)
           /\ \A d \in b : Cardinality(b \ {d}) = Cardinality(b) - 1
<1>1. IsFiniteSet(b) /\ Cardinality(b) <= Cardinality(Direction)
  BY DirectionAssumption, FS_Subset
<1>2. Cardinality(b) \in Nat /\ Cardinality(Direction) \in Nat
  BY <1>1, DirectionAssumption, FS_CardinalityType
<1>3. \A d \in b : Cardinality(b \ {d}) = Cardinality(b) - 1
  BY <1>1, FS_RemoveElement
<1> QED
  BY <1>1, <1>2, <1>3

LEMMA ListenerLess ==
    ASSUME TypeOK, stopped, ListenerStep PROVE StepsLeft' \in 0..StepsLeft - 1
<1>0. directions \cup changed \subseteq Direction /\ batch \subseteq Direction
  BY DEF TypeOK
<1>1. Cardinality(Direction) \in Nat /\ Cardinality(batch) \in Nat
  BY <1>0, Keys
<1>2. CASE CheckRunning
  BY <1>2 DEF CheckRunning, Running, StepsLeft
<1>3. CASE ReadLine
  <2>1. listener = "wait" /\ listener' \in {"copy", "check", "over"}
    BY <1>3 DEF ReadLine, TakeLine
  <2> QED
    BY <1>1, <2>1 DEF StepsLeft
<1>4. CASE CopyDirections
  <2>1. CASE listener' = "send"
    <3>1. batch' \in SUBSET Direction
      BY <1>0, <1>4, <2>1 DEF CopyDirections, Die
    <3>2. Cardinality(batch') \in Nat /\ Cardinality(batch') <= Cardinality(Direction)
      BY <3>1, Keys
    <3> QED
      BY <1>1, <1>4, <2>1, <3>2 DEF CopyDirections, StepsLeft
  <2>2. CASE listener' = "dead"
    BY <1>1, <1>4, <2>2 DEF CopyDirections, StepsLeft
  <2> QED
    BY <1>4, <2>1, <2>2 DEF CopyDirections, Die
<1>5. ASSUME NEW d \in Direction, SendDirection(d) PROVE StepsLeft' \in 0..StepsLeft - 1
  <2>1. listener = "send" /\ d \in batch
    BY <1>5 DEF SendDirection
  <2>2. CASE batch' = batch \ {d} /\ listener' = listener
    <3>1. Cardinality(batch') = Cardinality(batch) - 1 /\ Cardinality(batch') \in Nat
      <4>1. Cardinality(batch \ {d}) \in Nat
        BY <1>0, Keys
      <4> QED
        BY <1>0, <2>1, <2>2, <4>1, Keys
    <3> QED
      BY <1>1, <2>1, <2>2, <3>1 DEF StepsLeft
  <2>3. CASE listener' = "dead"
    BY <1>1, <2>1, <2>3 DEF StepsLeft
  <2> QED
    BY <1>5, <2>2, <2>3 DEF SendDirection, Die
<1>6. CASE ShowUpdate
  <2>1. listener = "send" /\ listener' \in {"check", "dead"}
    BY <1>6 DEF ShowUpdate, Die
  <2> QED
    BY <1>1, <2>1 DEF StepsLeft
<1> QED
  BY <1>2, <1>3, <1>4, <1>5, <1>6 DEF ListenerStep

\* A stopped listener ends after finitely many steps of its own, for any number
\* of keys, whatever the user, the server and the connection do meanwhile.
THEOREM RunsOutCorrect == Spec => RunsOut
<1> DEFINE Out == stopped => /\ stopped'
                             /\ ListenerStep => StepsLeft' \in 0..StepsLeft - 1
                             /\ ~ListenerStep => UNCHANGED <<listener, batch>>
<1>1. Init => StopInv
  BY DEF Init, StopInv
<1>2. StopInv /\ [Next]_vars => StopInv'
  BY StopNext
<1>3. ASSUME TypeOK, StopInv, [Next]_vars PROVE [Out]_vars
  <2> SUFFICES ASSUME stopped, Next PROVE Out
    BY <1>3
  <2>0. edt \in {"join", "closed"}
    BY <1>3 DEF StopInv
  <2>1. ASSUME ~ListenerStep PROVE UNCHANGED <<listener, batch>> /\ stopped'
    <3>1. ~UserStep
      BY <2>0 DEF UserStep, ConnectFails, Register, Ready, SendVote, Press, Release,
         PressSpace, LoseFocus, RegainFocus, Close
    <3>2. CASE HandlerStep
      BY <2>0, <3>2 DEF HandlerStep, RegisterReturns, RegisterTakes, RegisterFails,
         InitiateReady, AddKeyListener, Joined, listenerVars
    <3>3. CASE ServerStep
      BY <3>3 DEF ServerStep, Answer, SendUpdate, Deliver, StartGame, Break,
         listenerVars
    <3>4. CASE HalfFrame
      BY <3>4 DEF HalfFrame
    <3> QED
      BY <2>1, <3>1, <3>2, <3>3, <3>4 DEF Next
  <2>2. ASSUME ListenerStep PROVE stopped'
    BY <2>2 DEF ListenerStep, CheckRunning, ReadLine, TakeLine, CopyDirections,
       SendDirection, ShowUpdate
  <2>3. ListenerStep => StepsLeft' \in 0..StepsLeft - 1
    BY <1>3, ListenerLess
  <2> QED
    BY <2>1, <2>2, <2>3
<1>4. ClientInv => TypeOK
  BY DEF ClientInv
<1> QED
  BY <1>1, <1>2, <1>3, <1>4, ClientCorrect, PTL DEF Spec, RunsOut

-----------------------------------------------------------------------------
(* The server as the client's model has it.                                *)

(* How far the handshake is. *)
Stage ==
    IF Has("READY") THEN "ready"
    ELSE IF answered THEN "answered"
    ELSE IF Has("REGISTER") THEN "registered" ELSE "new"

(* What the updates have of this client. *)
View == IF game = "lobby" THEN "lobby" ELSE IF behind THEN "behind" ELSE "current"

ClientSession == INSTANCE Session WITH stage <- Stage, view <- View

\* The client and what its model takes the server to do are a session of the kind
\* that GameServer has with each client that keeps to the protocol.
ImplementsSession == ClientSession!SessionSpec

LEMMA StageIs ==
    SaidInv => Stage = IF ReadySaid THEN "ready" ELSE IF answered THEN "answered"
                       ELSE IF said = Registered THEN "registered" ELSE "new"
<1> SUFFICES ASSUME SaidInv
             PROVE  Stage = IF ReadySaid THEN "ready" ELSE IF answered THEN "answered"
                            ELSE IF said = Registered THEN "registered" ELSE "new"
  OBVIOUS
<1>1. Has("READY") <=> ReadySaid
  BY HasReady
<1>2. ~ReadySaid => (Has("REGISTER") <=> said = Registered)
  <2>1. CASE said = << >>
    BY <2>1, Kinds DEF Has
  <2>2. CASE said = Registered
    <3>1. 1 \in DOMAIN said /\ said[1] = "REGISTER"
      BY <2>2 DEF Registered
    <3> QED
      BY <2>2, <3>1 DEF Has
  <2> QED
    BY <2>1, <2>2 DEF SaidInv, ReadySaid
<1> QED
  BY <1>1, <1>2 DEF Stage

(* Before READY there are two steps in which the client says something.     *)
LEMMA SaidBefore ==
    ASSUME RegisterInv, SaidInv, ActingInv, Next, ~ReadySaid
    PROVE  said' = said \/ Register \/ InitiateReady
<1>1. ~Register /\ UserStep => said' = said
  BY DEF UserStep, ConnectFails, Ready, SendVote, Sends, SendRaises, Unheard, Say,
     Press, Release, PressSpace, Listening, LoseFocus, RegainFocus, Close, netVars, SaidInv, ActingInv
<1>2. ~InitiateReady /\ HandlerStep => said' = said
  BY DEF HandlerStep, RegisterReturns, RegisterTakes, RegisterFails, AddKeyListener,
     Joined, netVars
<1>3. ASSUME NEW d \in Direction, SendDirection(d) PROVE said' = said
  <2>1. conn = "open" => FALSE
    BY <1>3 DEF SendDirection, ActingInv, SaidInv
  <2> QED
    BY <1>3, <2>1 DEF SendDirection, Sends, SendRaises, Unheard, Say
<1>4. ListenerStep => said' = said
  BY <1>3 DEF ListenerStep, CheckRunning, ReadLine, TakeLine, CopyDirections, ShowUpdate,
     netVars
<1>5. ServerStep \/ HalfFrame => said' = said
  BY DEF ServerStep, Answer, SendUpdate, Deliver, StartGame, Break, HalfFrame, netVars
<1> QED
  BY <1>1, <1>2, <1>4, <1>5 DEF Next

(* What a step may do to the session. *)
LEMMA SessionMoves ==
    ASSUME \/ UNCHANGED <<Stage, View>>
           \/ /\ UNCHANGED View
              /\ \/ Stage = "new" /\ Stage' = "registered"
                 \/ Stage = "registered" /\ Stage' = "answered"
                 \/ Stage = "answered" /\ Stage' = "ready"
           \/ /\ UNCHANGED Stage
              /\ \/ View = "lobby" /\ Stage # "new" /\ View' = "current"
                 \/ View = "lobby" /\ Stage \in {"new", "registered"} /\ View' = "behind"
                 \/ View = "behind" /\ Stage # "new" /\ View' = "current"
    PROVE  [ClientSession!SessionNext]_(ClientSession!sessionVars)
BY DEF ClientSession!SessionNext, ClientSession!sessionVars, ClientSession!Go,
   ClientSession!SayRegister, ClientSession!GiveId, ClientSession!SayReady,
   ClientSession!Begin, ClientSession!CatchUp

LEMMA SessionStep ==
    ASSUME ClientInv, ClientInv', AnswerInv, [Next]_vars,
           Stage' = (IF ReadySaid THEN "ready" ELSE IF answered THEN "answered"
                     ELSE IF said = Registered THEN "registered" ELSE "new")'
    PROVE  [ClientSession!SessionNext]_(ClientSession!sessionVars)
<1>0. /\ SaidInv /\ RegisterInv /\ ActingInv /\ answered \in BOOLEAN
      /\ behind \in BOOLEAN /\ game \in {"lobby", "running"}
  BY DEF ClientInv, TypeOK
<1>1. Stage = IF ReadySaid THEN "ready" ELSE IF answered THEN "answered"
              ELSE IF said = Registered THEN "registered" ELSE "new"
  BY <1>0, StageIs
<1>2. ReadySaid => ReadySaid'
  BY <1>0, ReadyStays
<1>3. ReadySaid => answered
  BY DEF ClientInv, SaidInv, SeenInv
<1>4. CASE UNCHANGED vars
  <2>1. UNCHANGED <<Stage, View>>
    BY <1>4 DEF vars, netVars, serverVars, Stage, View, Has
  <2> QED
    BY <2>1, SessionMoves
<1>5. CASE Register
  <2>1. UNCHANGED View
    BY <1>5 DEF Register, serverVars, View
  <2>2. /\ said = << >> /\ ~answered /\ UNCHANGED answered
        /\ said' = Registered \/ said' = said
    BY <1>5 DEF Register, RegisterInv, AnswerInv, Registered, serverVars, ClientInv
  <2>3. Stage = "new" /\ Stage' \in {"new", "registered"}
    BY <1>1, <2>2, Kinds DEF ReadySaid
  <2> QED
    BY <2>1, <2>3, SessionMoves
<1>6. CASE InitiateReady
  <2>1. UNCHANGED View
    BY <1>6 DEF InitiateReady, serverVars, View
  <2>2. /\ answered /\ UNCHANGED answered /\ ~ReadySaid
    BY <1>6 DEF InitiateReady, serverVars, ClientInv, SaidInv, SeenInv
  <2>3. Stage = "answered" /\ Stage' \in {"answered", "ready"}
    BY <1>1, <2>2
  <2> QED
    BY <2>1, <2>3, SessionMoves
<1>8. ASSUME Next, ~Register, ~InitiateReady, UNCHANGED answered
      PROVE  UNCHANGED Stage
  <2>1. CASE ReadySaid
    BY <1>1, <1>2, <2>1
  <2>2. CASE ~ReadySaid
    <3>1. said' = said
      BY <1>0, <1>8, <2>2, SaidBefore
    <3> QED
      BY <1>1, <1>8, <3>1 DEF ReadySaid
  <2> QED
    BY <2>1, <2>2
<1>9. CASE Answer
  <2>1. UNCHANGED <<said, View>> /\ ~answered /\ answered' /\ said # << >>
    BY <1>9 DEF Answer, Deliver, View, Has
  <2>2. ~ReadySaid /\ ~ReadySaid' /\ said = Registered
    BY <1>0, <1>3, <2>1 DEF SaidInv, ReadySaid
  <2>3. Stage = "registered" /\ Stage' = "answered"
    BY <1>1, <2>1, <2>2
  <2> QED
    BY <2>1, <2>3, SessionMoves
<1>10. CASE SendUpdate
  <2>1. /\ UNCHANGED <<said, answered, game>> /\ game = "running" /\ ~behind'
        /\ said # << >>
    BY <1>10 DEF SendUpdate, Deliver, Has
  <2>2. UNCHANGED Stage /\ Stage # "new"
    BY <1>0, <1>1, <2>1 DEF SaidInv, ReadySaid
  <2>3. UNCHANGED View \/ (View = "behind" /\ View' = "current")
    BY <2>1 DEF View
  <2> QED
    BY <2>2, <2>3, SessionMoves
<1>11. CASE StartGame
  <2>1. /\ UNCHANGED <<said, answered>> /\ game = "lobby" /\ game' = "running"
        /\ behind' => ~answered
        /\ ~behind' => said # << >>
    BY <1>11 DEF StartGame, netVars, Has
  <2>2. UNCHANGED Stage
    BY <1>1, <2>1 DEF ReadySaid
  <2>3. View = "lobby" /\ View' = IF behind' THEN "behind" ELSE "current"
    BY <2>1 DEF View
  <2>4. behind' => Stage \in {"new", "registered"}
    BY <1>1, <1>3, <2>1
  <2>5. ~behind' => Stage # "new"
    BY <1>0, <1>1, <2>1 DEF SaidInv, ReadySaid
  <2> QED
    BY <2>2, <2>3, <2>4, <2>5, SessionMoves
<1>12. ASSUME Next, ~Register, ~InitiateReady, UNCHANGED serverVars
       PROVE  [ClientSession!SessionNext]_(ClientSession!sessionVars)
  BY <1>8, <1>12, SessionMoves DEF serverVars, View
<1>13. \/ Answer \/ SendUpdate \/ StartGame
       \/ Next => UNCHANGED serverVars
  BY DEF Next, UserStep, HandlerStep, ListenerStep, ServerStep, ConnectFails, Register,
     Ready, SendVote, Press, Release, PressSpace, LoseFocus, RegainFocus, Close,
     RegisterReturns, RegisterTakes, RegisterFails, InitiateReady, AddKeyListener, Joined,
     CheckRunning, ReadLine, TakeLine, CopyDirections, SendDirection, ShowUpdate,
     HalfFrame, Break
<1> QED
  BY <1>4, <1>5, <1>6, <1>9, <1>10, <1>11, <1>12, <1>13

\* The server that GameClient models does no more than the one of GameServer is
\* proved to do, and the client says to it what GameServer has a client say.
THEOREM ImplementsSessionCorrect == Spec => ImplementsSession
<1>1. Init => AnswerInv
  BY DEF Init, AnswerInv, IdIsNotTaken
<1>2. ClientInv /\ AnswerInv /\ [Next]_vars => AnswerInv'
  BY AnswerNext DEF ClientInv
<1>3. Init => ClientSession!SessionInit
  <2>1. Init => ~Has("READY") /\ ~Has("REGISTER")
    BY DEF Init, Has
  <2>2. Init => Stage = "new"
    BY <2>1, Zenon DEF Init, Stage
  <2>3. Init => View \in {"lobby", "behind"}
    BY Joiners DEF View
  <2> QED
    BY <2>2, <2>3 DEF ClientSession!SessionInit
<1> DEFINE Named == Stage = IF ReadySaid THEN "ready" ELSE IF answered THEN "answered"
                              ELSE IF said = Registered THEN "registered" ELSE "new"
<1>4. ClientInv => Named
  BY StageIs DEF ClientInv
<1>5. ClientInv /\ ClientInv' /\ Named' /\ AnswerInv /\ [Next]_vars
      => [ClientSession!SessionNext]_(ClientSession!sessionVars)
  BY SessionStep
<1> HIDE DEF Named
<1> QED
  BY <1>1, <1>2, <1>3, <1>4, <1>5, ClientCorrect, PTL
     DEF Spec, ImplementsSession, ClientSession!SessionSpec
=============================================================================
