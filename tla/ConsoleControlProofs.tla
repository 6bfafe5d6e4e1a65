------------------------ MODULE ConsoleControlProofs ------------------------
(***************************************************************************)
(* Proofs about ConsoleControl and ConsoleControlHistory, for any tokens,  *)
(* lines, buffer sizes and faults: neither buffer ever exceeds its         *)
(* capacity, a response always finds TX empty, what the peer has been told *)
(* about its settings stays true, and no command writes that was not sent. *)
(***************************************************************************)
EXTENDS ConsoleControlHistory, SequenceTheorems, WellFoundedInduction, TLAPS

(* Positions of a sequence have a first one. *)
LEMMA FirstPosition ==
    ASSUME NEW S, S \subseteq Nat, S # {}
    PROVE  \E i \in S : \A j \in S : i <= j
<1>1. \E i \in S : \A j \in S : ~(<<j, i>> \in OpToRel(<, Nat))
  BY NatLessThanWellFounded, WFMin
<1>2. \A i, j \in Nat : j < i => <<j, i>> \in OpToRel(<, Nat)
  BY DEF OpToRel
<1>3. \A i, j \in Nat : ~(j < i) => i <= j
  OBVIOUS
<1> QED
  BY <1>1, <1>2, <1>3

(* What follows the first terminator is a shorter buffer. *)
LEMMA AfterFrameType ==
    ASSUME TypeOK, Ends # {}
    PROVE  AfterFrame \in Seq(Symbols) /\ Len(AfterFrame) <= RxCap
<1>1. rx \in Seq(Symbols) /\ Len(rx) \in Nat /\ Len(rx) <= RxCap
  BY DEF TypeOK
<1>2. Ends \subseteq 1..Len(rx) /\ Ends \subseteq Nat
  BY <1>1 DEF Ends
<1>3. FirstEnd \in Ends
  BY <1>2, FirstPosition DEF FirstEnd
<1>4. FirstEnd \in 1..Len(rx)
  BY <1>2, <1>3
<1>5. /\ SubSeq(rx, FirstEnd + 1, Len(rx)) \in Seq(Symbols)
      /\ Len(SubSeq(rx, FirstEnd + 1, Len(rx))) <= Len(rx)
  <2>1. \A i \in FirstEnd + 1 .. Len(rx) : rx[i] \in Symbols
    BY <1>1, <1>4
  <2> QED
    BY <1>1, <1>4, <2>1, SubSeqProperties
<1> QED
  BY <1>1, <1>5, ConstantsOK DEF AfterFrame

(* A queued response leaves both buffers within their capacity. *)
LEMMA RespondType ==
    ASSUME TypeOK, Ends # {}, NEW response \in Responses, Respond(response)
    PROVE  /\ rx' \in Seq(Symbols) /\ Len(rx') <= RxCap
           /\ tx' \in Seq(Responses) /\ Len(tx') <= TxSlots
<1>1. CASE Len(tx) < TxSlots
  <2>1. /\ tx' \in Seq(Responses) /\ Len(tx') = Len(tx) + 1
    <3>1. tx' = Append(tx, response) /\ tx \in Seq(Responses)
      BY <1>1, Zenon DEF Respond, TypeOK
    <3> QED
      BY ONLY response \in Responses, <3>1, AppendProperties
  <2> QED
    BY <1>1, <2>1, AfterFrameType, ConstantsOK DEF Respond, TypeOK
<1>2. CASE ~(Len(tx) < TxSlots)
  BY <1>2, ConstantsOK DEF Respond, TypeOK
<1> QED
  BY <1>1, <1>2

(* A line that is sent, and what is read of the lines sent. *)
LEMMA SendType ==
    ASSUME TypeOK, NEW line \in Lines, Send(line)
    PROVE  TypeOK'
<1>1. line \in Seq(Symbols)
  BY ConstantsOK DEF Symbols
<1>2. uart \o line \in Seq(Symbols) /\ Len(uart \o line) = Len(uart) + Len(line)
  BY <1>1, ConcatProperties DEF TypeOK
<1> QED
  BY <1>2 DEF TypeOK, Send, settings

LEMMA PullType ==
    ASSUME TypeOK, NEW n \in 1..Chunk, PullSome(n)
    PROVE  TypeOK'
<1>1. /\ uart \in Seq(Symbols) /\ Len(uart) \in Nat /\ n \in Nat /\ n <= Len(uart)
      /\ Len(uart) <= MaxUart /\ MaxUart \in Nat
  BY ConstantsOK DEF TypeOK, PullSome, Readable
<1>2. SubSeq(uart, 1, n) \in Seq(Symbols) /\ Len(SubSeq(uart, 1, n)) = n
  <2>1. \A i \in 1..n : uart[i] \in Symbols
    BY <1>1
  <2> QED
    BY <1>1, <2>1, SubSeqProperties
<1>3. /\ SubSeq(uart, n + 1, Len(uart)) \in Seq(Symbols)
      /\ Len(SubSeq(uart, n + 1, Len(uart))) <= Len(uart)
  <2>1. \A i \in n + 1 .. Len(uart) : uart[i] \in Symbols
    BY <1>1
  <2> QED
    BY <1>1, <2>1, SubSeqProperties
<1>4. uart' \in Seq(Symbols) /\ Len(uart') <= MaxUart
  BY <1>1, <1>3 DEF PullSome
<1>5. rx' \in Seq(Symbols) /\ Len(rx') <= RxCap
  <2>1. CASE Fits(n)
    <3>1. rx' = rx \o SubSeq(uart, 1, n)
      BY <2>1 DEF PullSome
    <3>2. rx' \in Seq(Symbols) /\ Len(rx') = Len(rx) + n
      BY <1>2, <3>1, ConcatProperties DEF TypeOK
    <3> QED
      BY <2>1, <3>2 DEF Fits
  <2>2. CASE ~Fits(n)
    BY <2>2 DEF PullSome, TypeOK
  <2> QED
    BY <2>1, <2>2
<1> QED
  BY <1>4, <1>5 DEF TypeOK, PullSome, settings

(* Every command leaves the types as they are. *)
LEMMA RunType == ASSUME TypeOK, Run PROVE TypeOK'
<1>1. ASSUME NEW c \in Commands, Decodes(c), NEW response \in Responses, Respond(response),
             activeProfile' \in Profiles, stored' \in RawBytes \cup {None},
             bonds' \in RawBytes \cup {None}
      PROVE  TypeOK'
  <2>1. Ends # {} /\ uart' = uart /\ phase' = "flush"
    BY <1>1 DEF Decodes, Servicing
  <2> QED
    BY <1>1, <2>1, RespondType DEF TypeOK
<1>2. /\ activeProfile \in Profiles /\ stored \in RawBytes \cup {None}
      /\ bonds \in RawBytes \cup {None} /\ V1 \in Profiles
  BY ConstantsOK DEF TypeOK
<1>3. /\ [kind |-> "Info", profile |-> activeProfile] \in Responses
      /\ [kind |-> "Profile", profile |-> activeProfile] \in Responses
      /\ \A loaded \in LoadedBonds :
           [kind |-> "Status", profile |-> activeProfile, bonds |-> loaded] \in Responses
      /\ Ack \in Responses /\ StoreFailed \in Responses
  BY <1>2 DEF Responses, Ack, StoreFailed, LoadedBonds, Loads, BondsPresent
<1>4. CASE GetInfo
  BY <1>1, <1>2, <1>3, <1>4 DEF GetInfo, settings, Commands
<1>5. CASE GetStatus
  BY <1>1, <1>2, <1>3, <1>5 DEF GetStatus, settings, Commands
<1>6. CASE GetProfile
  BY <1>1, <1>2, <1>3, <1>6 DEF GetProfile, settings, Commands
<1>7. CASE SetProfile
  BY <1>1, <1>2, <1>3, <1>7 
     DEF SetProfile, Commands, store_active_profile, Written, Outcome, raw_tag_from_profile, RawBytes
<1>8. CASE ForgetBonds
  BY <1>1, <1>2, <1>3, <1>8 
     DEF ForgetBonds, Commands, clear_bonds, store_bonds_present, Written, Outcome, raw_flag, RawBytes
<1>9. CASE Reboot
  BY <1>1, <1>2, <1>3, <1>9 DEF Reboot, settings, Commands
<1> QED
  BY <1>4, <1>5, <1>6, <1>7, <1>8, <1>9 DEF Run

(* A step keeps the types. *)
LEMMA TypeStep == ASSUME TypeOK, [Next]_vars PROVE TypeOK'
<1>1. CASE UNCHANGED vars
  BY <1>1 DEF TypeOK, vars, settings
<1>2. CASE Peer
  BY <1>2, SendType DEF Peer
<1>3. CASE PowerCycle
  BY <1>3, ConstantsOK DEF TypeOK, PowerCycle, Opening
<1>4. CASE Boot
  <2>1. CASE Bootstrap
    BY <2>1, ConstantsOK
       DEF TypeOK, Bootstrap, LoadedProfile, Loads, profile_from_raw_tag
  <2>2. CASE OpenProfileStore \/ OpenBondStore \/ OpenConsole
    BY <2>2
       DEF TypeOK, OpenProfileStore, OpenBondStore, OpenConsole, Opens, Opening, StartErrors, settings
  <2> QED
    BY <1>4, <2>1, <2>2 DEF Boot
<1>5. CASE PullNothing
  BY <1>5 DEF TypeOK, PullNothing, settings
<1>6. CASE Pull
  BY <1>6, PullType DEF Pull
<1>7. CASE NoFrame
  BY <1>7 DEF TypeOK, NoFrame, Servicing, settings
<1>8. CASE Malformed
  BY <1>8, ConstantsOK DEF TypeOK, Malformed, Servicing, AfterMalformed, settings
<1>9. CASE Run
  BY <1>9, RunType
<1>10. ASSUME NEW written \in BOOLEAN, Flush(written) PROVE TypeOK'
  BY <1>10, ConstantsOK DEF TypeOK, Flush, Unsent, settings
<1> QED
  BY <1>1, <1>2, <1>3, <1>4, <1>5, <1>6, <1>7, <1>8, <1>9, <1>10
     DEF Next, Loop, Service

(* No buffer ever exceeds its capacity, whatever the peer sends and        *)
(* whatever fails.                                                         *)
THEOREM TypeCorrect == Spec => []TypeOK
<1>1. Init => TypeOK
  BY ConstantsOK, EntriesOK DEF Init, TypeOK, Opening
<1>2. TypeOK /\ [Next]_vars => TypeOK'
  BY TypeStep
<1> QED
  BY <1>1, <1>2, PTL DEF Spec

(* A response is queued in the only phase in which TX may be full of       *)
(* something, so that queue_response never refuses one.                    *)
THEOREM ResponseAlwaysFits == Spec => []ResponseFits
<1> DEFINE Inv == TypeOK /\ (phase # "flush" => tx = <<>>)
<1>1. Init => (phase # "flush" => tx = <<>>)
  BY DEF Init
<1>2. Inv /\ TypeOK' /\ [Next]_vars => Inv'
  <2> SUFFICES ASSUME Inv, TypeOK', [Next]_vars PROVE phase' # "flush" => tx' = <<>>
    OBVIOUS
  <2>1. CASE UNCHANGED vars
    BY <2>1 DEF vars
  <2>2. CASE Peer
    BY <2>2 DEF Peer, Send
  <2>3. CASE PowerCycle
    BY <2>3 DEF PowerCycle
  <2>4. CASE Boot
    BY <2>4
       DEF Boot, OpenProfileStore, OpenBondStore, OpenConsole, Opens, StartErrors, Bootstrap, settings
  <2>5. CASE PullNothing
    BY <2>5 DEF PullNothing
  <2>6. CASE Pull
    BY <2>6 DEF Pull, PullSome
  <2>7. CASE Service
    BY <2>7 DEF Service, NoFrame, Malformed, Run, GetInfo, GetStatus, GetProfile,
                SetProfile, ForgetBonds, Reboot, Decodes, Servicing
  <2>8. ASSUME NEW written \in BOOLEAN, Flush(written) PROVE tx' = <<>>
    BY <2>8 DEF Flush, Unsent
  <2> QED
    BY <2>1, <2>2, <2>3, <2>4, <2>5, <2>6, <2>7, <2>8 DEF Next, Loop
<1>3. Inv => ResponseFits
  BY DEF ResponseFits
<1> QED
  BY <1>1, <1>2, <1>3, TypeCorrect, PTL DEF Spec

-----------------------------------------------------------------------------
Answers == Seq(Commands \X Responses)

(* What a response to a command tells about the settings it was made from. *)
Truthful(command, response) ==
    /\ command = "FORGET_BONDS" /\ response = Ack => ~BondsPresent
    /\ command = "SET_PROFILE" /\ response = Ack => profile_from_raw_tag(stored) = V1
    /\ response.kind = "Status" /\ response.bonds => BondsPresent

(* TX holds nothing but the answer to the last command; it and everything  *)
(* the peer has received agree with the flash.                             *)
DurableInv ==
    /\ TypeOK
    /\ ran \in Seq(Commands)
    /\ received \in Answers
    /\ phase # "flush" => tx = <<>>
    /\ tx # <<>> => Len(tx) = 1 /\ ran # <<>> /\ Truthful(Last(ran), tx[1])
    /\ AcknowledgedIsDurable

(* The settings only ever become what an acknowledgment would tell. *)
Kept ==
    /\ ~BondsPresent => ~BondsPresent'
    /\ profile_from_raw_tag(stored) = V1 => profile_from_raw_tag(stored') = V1

LEMMA StepKeeps == ASSUME [Next]_vars PROVE Kept
<1> USE DEF Kept, BondsPresent, profile_from_raw_tag, raw_tag_from_profile, raw_flag
<1>1. CASE UNCHANGED <<stored, bonds>>
  BY <1>1
<1>2. CASE SetProfile
  BY <1>2 DEF SetProfile, store_active_profile, Written
<1>3. CASE ForgetBonds
  BY <1>3 DEF ForgetBonds, clear_bonds, store_bonds_present, Written
<1> QED
  BY <1>1, <1>2, <1>3
     DEF Next, Peer, Send, Loop, Boot, OpenProfileStore, OpenBondStore, OpenConsole, Opens,
         Bootstrap, PullNothing, Pull, PullSome, Service, NoFrame,
         Malformed, Run, GetInfo, GetStatus, GetProfile, Reboot, Flush, PowerCycle, settings, vars

(* Steps that neither run nor flush. *)
LEMMA QuietStep ==
    ASSUME DurableInv, [Next]_vars, UNCHANGED <<ran, received>>,
           tx' = <<>> \/ (tx' = tx /\ phase' = phase), UNCHANGED <<stored, bonds>>
    PROVE  DurableInv'
BY TypeStep
   DEF DurableInv, Truthful, AcknowledgedIsDurable, BondsPresent, profile_from_raw_tag

(* A command run: TX is empty before, and its answer is true afterwards. *)
LEMMA AnswerIsTruthful ==
    ASSUME DurableInv, Run, NEW c \in Commands, Decodes(c)
    PROVE  \E response \in Responses : tx' = <<response>> /\ Truthful(c, response)'
<1>1. /\ phase = "service" /\ tx = <<>> /\ TxSlots \in Nat \ {0} /\ V1 \in Profiles
      /\ activeProfile \in Profiles
  BY ConstantsOK DEF Decodes, Servicing, DurableInv, TypeOK
<1>2. ASSUME NEW response, Respond(response) PROVE tx' = <<response>>
  BY <1>1, <1>2 DEF Respond
<1>3. ASSUME NEW d \in Commands, Decodes(d) PROVE d = c
  BY <1>3, ConstantsOK DEF Decodes
<1> USE DEF Truthful, Responses, Ack, Commands
<1>4. CASE GetInfo
  BY <1>1, <1>2, <1>4 DEF GetInfo
<1>5. CASE GetStatus
  <2>1. PICK loaded \in LoadedBonds :
          Respond([kind |-> "Status", profile |-> activeProfile, bonds |-> loaded])
    BY <1>5 DEF GetStatus
  <2>2. loaded \in BOOLEAN /\ (loaded => BondsPresent)
    BY <2>1 DEF LoadedBonds, Loads, BondsPresent
  <2>3. BondsPresent' = BondsPresent
    BY <1>5 DEF GetStatus, settings, BondsPresent
  <2> QED
    BY <1>1, <1>2, <2>1, <2>2, <2>3
<1>6. CASE GetProfile
  BY <1>1, <1>2, <1>6 DEF GetProfile
<1>7. CASE SetProfile
  <2>1. c = "SET_PROFILE"
    BY <1>3, <1>7 DEF SetProfile
  <2>2. CASE store_active_profile(V1, TRUE) /\ Respond(Ack)
    BY <1>2, <2>1, <2>2
       DEF store_active_profile, Written, raw_tag_from_profile, profile_from_raw_tag
  <2>3. CASE Respond(StoreFailed)
    BY <1>2, <2>1, <2>3 DEF StoreFailed
  <2> QED
    BY <1>7, <2>2, <2>3 DEF SetProfile, Outcome
<1>8. CASE ForgetBonds
  <2>1. c = "FORGET_BONDS"
    BY <1>3, <1>8 DEF ForgetBonds
  <2>2. CASE clear_bonds(TRUE) /\ Respond(Ack)
    BY <1>2, <2>1, <2>2 DEF clear_bonds, store_bonds_present, Written, raw_flag, BondsPresent
  <2>3. CASE Respond(StoreFailed)
    BY <1>2, <2>1, <2>3 DEF StoreFailed
  <2> QED
    BY <1>8, <2>2, <2>3 DEF ForgetBonds, Outcome
<1>9. CASE Reboot
  <2>1. c = "REBOOT"
    BY <1>3, <1>9 DEF Reboot
  <2> QED
    BY <1>2, <1>9, <2>1 DEF Reboot
<1> QED
  BY <1>4, <1>5, <1>6, <1>7, <1>8, <1>9 DEF Run

LEMMA RunKeepsInv ==
    ASSUME DurableInv, [Next]_vars, HRun
    PROVE  DurableInv'
<1>1. PICK c \in Commands : Decodes(c) /\ ran' = Append(ran, c)
  BY DEF HRun
<1>2. PICK response \in Responses : tx' = <<response>> /\ Truthful(c, response)'
  BY <1>1, AnswerIsTruthful DEF HRun
<1>3. ran' \in Seq(Commands) /\ ran' # <<>> /\ Last(ran') = c
  BY <1>1 DEF DurableInv, Last
<1>4. phase' = "flush" /\ received' = received
  BY <1>1 DEF HRun, Decodes, Servicing
<1>5. AcknowledgedIsDurable'
  BY <1>4, StepKeeps DEF Kept, DurableInv, AcknowledgedIsDurable, BondsPresent
<1>6. Len(tx') = 1 /\ tx'[1] = response
  BY <1>2
<1>7. Truthful(Last(ran), tx[1])'
  BY <1>2, <1>3, <1>6 DEF Truthful
<1> QED
  BY <1>3, <1>4, <1>5, <1>6, <1>7, TypeStep DEF DurableInv

(* An answer received is true, and contradicts none received before. *)
LEMMA FlushKeepsInv ==
    ASSUME DurableInv, [Next]_vars, NEW written \in BOOLEAN, HFlush(written)
    PROVE  DurableInv'
<1>1. /\ tx' = <<>> /\ UNCHANGED <<stored, bonds, ran>> /\ phase' # "flush"
  BY DEF HFlush, Flush, Unsent, settings
<1>2. CASE received' = received
  BY <1>1, <1>2, QuietStep
<1>3. CASE tx # <<>> /\ received' = Append(received, <<Last(ran), Last(tx)>>)
  <2> DEFINE command == Last(ran)
             response == tx[1]
  <2>1. command \in Commands /\ response \in Responses /\ Last(tx) = response
    <3>1. /\ ran \in Seq(Commands) /\ ran # <<>>
          /\ tx \in Seq(Responses) /\ Len(tx) = 1
      BY <1>3 DEF DurableInv, TypeOK
    <3>2. ran[Len(ran)] \in Commands
      <4>1. \A s \in Seq(Commands) : s # <<>> => s[Len(s)] \in Commands
        OBVIOUS
      <4> QED
        BY ONLY <3>1, <4>1, Zenon
    <3>3. tx[1] \in Responses
      <4>1. \A s \in Seq(Responses) : Len(s) = 1 => s[1] \in Responses
        OBVIOUS
      <4> QED
        BY ONLY <3>1, <4>1, Zenon
    <3>4. Last(tx) = tx[1]
      BY <3>1, Zenon DEF Last
    <3> QED
      BY <3>2, <3>3, <3>4, Zenon DEF Last
  <2>2. Truthful(command, response)
    BY <1>3 DEF DurableInv
  <2>3. /\ received \in Answers /\ Len(received) \in Nat
        /\ received' = Append(received, <<command, response>>)
        /\ AcknowledgedIsDurable
    BY <1>3, <2>1 DEF DurableInv, Answers
  <2> HIDE DEF command, response
  <2>4. /\ received' \in Answers
        /\ Len(received') = Len(received) + 1
        /\ received'[Len(received) + 1] = <<command, response>>
        /\ \A i \in 1..Len(received) : received'[i] = received[i]
        /\ DOMAIN received' = 1..Len(received) + 1 /\ DOMAIN received = 1..Len(received)
    BY <2>1, <2>3 DEF Answers
  <2>5. ASSUME NEW pair, pair \in Range(received')
        PROVE  pair \in Range(received) \/ pair = <<command, response>>
    <3>1. PICK k \in 1..Len(received) + 1 : pair = received'[k]
      BY <2>4, <2>5 DEF Range
    <3>2. CASE k \in 1..Len(received)
      <4>1. pair = received[k] /\ k \in DOMAIN received
        BY <2>4, <3>1, <3>2
      <4> QED
        BY <4>1 DEF Range
    <3>3. CASE k = Len(received) + 1
      BY <2>4, <3>1, <3>3
    <3> QED
      BY <2>3, <3>2, <3>3
  <2>6. /\ <<"FORGET_BONDS", Ack>> \in Range(received') => ~BondsPresent
        /\ <<"SET_PROFILE", Ack>> \in Range(received') => profile_from_raw_tag(stored) = V1
    BY <2>2, <2>3, <2>5 DEF AcknowledgedIsDurable, Truthful
  <2>7. ASSUME NEW i \in DOMAIN received', NEW j \in DOMAIN received', i < j,
               received'[i] = <<"FORGET_BONDS", Ack>>, received'[j][2].kind = "Status"
        PROVE  ~received'[j][2].bonds
    <3>1. i \in 1..Len(received) /\ received[i] = <<"FORGET_BONDS", Ack>>
      BY <2>3, <2>4, <2>7
    <3>2. CASE j \in 1..Len(received)
      BY <2>3, <2>4, <2>7, <3>1, <3>2 DEF AcknowledgedIsDurable
    <3>3. CASE j = Len(received) + 1
      <4>1. ~BondsPresent
        BY <2>3, <2>4, <3>1 DEF AcknowledgedIsDurable, Range
      <4>2. received'[j][2] = response
        BY <2>4, <3>3
      <4> QED
        BY <2>2, <2>7, <4>1, <4>2 DEF Truthful
    <3> QED
      BY <2>3, <2>4, <3>2, <3>3
  <2>8. AcknowledgedIsDurable'
    BY <1>1, <2>6, <2>7 DEF AcknowledgedIsDurable, BondsPresent, profile_from_raw_tag
  <2> QED
    BY <1>1, <2>4, <2>8, TypeStep DEF DurableInv
<1> QED
  BY <1>2, <1>3 DEF HFlush

(* What the peer has been told stays true through losses of power, failed  *)
(* writes and failed loads.                                                *)
THEOREM AcknowledgedStays == HSpec => []AcknowledgedIsDurable
<1>1. HInit => DurableInv
  <2> SUFFICES ASSUME HInit PROVE DurableInv
    OBVIOUS
  <2>1. TypeOK
    BY ConstantsOK, EntriesOK DEF HInit, Init, TypeOK, Opening
  <2> QED
    BY <2>1 DEF HInit, Init, DurableInv, AcknowledgedIsDurable, Answers, Range
<1>2. DurableInv /\ [HNext]_hvars => DurableInv'
  <2> SUFFICES ASSUME DurableInv, [HNext]_hvars PROVE DurableInv'
    OBVIOUS
  <2>1. [Next]_vars
    BY DEF HNext, HSend, HLoop, HPull, HRun, HFlush, HPowerCycle, hvars, Next, Peer, Loop, Service
  <2>2. CASE HRun
    BY <2>1, <2>2, RunKeepsInv
  <2>3. ASSUME NEW written \in BOOLEAN, HFlush(written) PROVE DurableInv'
    BY <2>1, <2>3, FlushKeepsInv
  <2>4. CASE HPowerCycle
    BY <2>1, <2>4, QuietStep DEF HPowerCycle, PowerCycle
  <2>5. ASSUME NEW line \in Lines, HSend(line) PROVE DurableInv'
    BY <2>1, <2>5, QuietStep DEF HSend, Send, settings
  <2>6. CASE (Boot \/ PullNothing \/ Pull \/ NoFrame \/ Malformed)
               /\ UNCHANGED <<ran, received>>
    <3>1. phase # "flush" /\ tx' = tx /\ UNCHANGED <<stored, bonds>>
      BY <2>6
         DEF Boot, OpenProfileStore, OpenBondStore, OpenConsole, Opens, Bootstrap,
             PullNothing, Pull, PullSome, NoFrame, Malformed, Servicing, settings
    <3>2. tx' = <<>>
      BY <3>1 DEF DurableInv
    <3> QED
      BY <2>1, <2>6, <3>1, <3>2, QuietStep
  <2>7. CASE UNCHANGED hvars
    BY <2>1, <2>7, QuietStep DEF hvars, vars, settings
  <2> QED
    BY <2>2, <2>3, <2>4, <2>5, <2>6, <2>7 DEF HNext, HLoop, HPull
<1>3. DurableInv => AcknowledgedIsDurable
  BY DEF DurableInv
<1> QED
  BY <1>1, <1>2, <1>3, PTL DEF HSpec

-----------------------------------------------------------------------------
(* Each line the peer sends is good for one write: what remains of it is   *)
(* its mark, a token no other line has, and the frame that runs consumes   *)
(* it.                                                                     *)

Mark(c) == CHOOSE m \in Tokens : Marks(c, m)

LEMMA MarkOf ==
    ASSUME NEW c \in Writing
    PROVE  Mark(c) \in Tokens /\ Marks(c, Mark(c))
BY MarksOK DEF Mark

(* The line of a command is its text and the terminator. *)
LEMMA LineOfCommand ==
    ASSUME NEW c \in Commands
    PROVE  /\ Text[c] \in Seq(Tokens) /\ Len(Text[c]) \in Nat
           /\ DOMAIN Text[c] = 1..Len(Text[c])
           /\ Len(CommandLine(c)) = Len(Text[c]) + 1
           /\ \A i \in 1..Len(Text[c]) : CommandLine(c)[i] = Text[c][i]
           /\ CommandLine(c)[Len(Text[c]) + 1] = NL
<1>1. Text[c] \in Seq(Tokens) /\ Len(Text[c]) \in Nat /\ DOMAIN Text[c] = 1..Len(Text[c])
  BY ConstantsOK
<1>2. Text[c] \in Seq(Symbols) /\ NL \in Symbols
  BY <1>1 DEF Symbols
<1> QED
  BY <1>1, <1>2, AppendProperties DEF CommandLine

(* A line holds one mark at most, and then it is that command's line. *)
LEMMA OneMark ==
    ASSUME NEW line \in Lines, NEW c \in Writing, NEW d \in Writing,
           NEW p \in 1..Len(line), NEW q \in 1..Len(line),
           line[p] = Mark(c), line[q] = Mark(d)
    PROVE  p = q /\ line = CommandLine(c)
<1>1. line \in Seq(Symbols) /\ c \in Commands /\ d \in Commands
  BY ConstantsOK DEF Symbols, Writing, Commands
<1>2. Mark(c) \in Range(line) /\ Mark(d) \in Range(line)
  BY <1>1 DEF Range
<1>3. line = CommandLine(c) /\ line = CommandLine(d)
  BY <1>2, MarkOf DEF Marks
<1>4. /\ Text[c] \in Seq(Tokens) /\ Text[d] \in Seq(Tokens)
      /\ Len(Text[c]) \in Nat /\ Len(Text[d]) \in Nat
  BY <1>1, LineOfCommand
<1>5. /\ Len(line) = Len(Text[c]) + 1
      /\ \A i \in 1..Len(Text[c]) : line[i] = Text[c][i]
      /\ line[Len(Text[c]) + 1] = NL
  BY <1>1, <1>3, LineOfCommand
<1>6. /\ Len(line) = Len(Text[d]) + 1
      /\ \A i \in 1..Len(Text[d]) : line[i] = Text[d][i]
  BY <1>1, <1>3, LineOfCommand
<1>7. c = d
  <2>1. Len(Text[c]) = Len(Text[d])
    BY <1>4, <1>5, <1>6
  <2>2. \A i \in 1..Len(Text[c]) : Text[c][i] = Text[d][i]
    BY <1>5, <1>6, <2>1
  <2>3. Text[c] = Text[d]
    BY <1>4, <2>1, <2>2, SeqEqual
  <2> QED
    BY <1>1, <2>3, ConstantsOK
<1>8. p \in 1..Len(Text[c]) /\ q \in 1..Len(Text[c])
  <2>1. Mark(c) # NL /\ Mark(d) # NL
    BY MarkOf, ConstantsOK
  <2> QED
    BY ONLY <1>4, <1>5, <2>1, p \in 1..Len(line), q \in 1..Len(line),
            line[p] = Mark(c), line[q] = Mark(d), SMT
<1>9. PICK i \in DOMAIN Text[c] : \A j \in DOMAIN Text[c] : Text[c][j] = Mark(c) <=> j = i
  BY MarkOf DEF Marks
<1>10. Text[c][p] = Mark(c) /\ Text[c][q] = Mark(c) /\ DOMAIN Text[c] = 1..Len(Text[c])
  BY <1>4, <1>5, <1>7, <1>8
<1> QED
  BY <1>3, <1>8, <1>9, <1>10

(* What follows another sequence is shifted by its length. *)
LEMMA Joined ==
    ASSUME NEW s \in Seq(Symbols), NEW t \in Seq(Symbols)
    PROVE  /\ s \o t \in Seq(Symbols)
           /\ Len(s \o t) = Len(s) + Len(t)
           /\ Len(s) \in Nat /\ Len(t) \in Nat
           /\ \A p \in 1..Len(s) : (s \o t)[p] = s[p]
           /\ \A p \in 1..Len(t) : (s \o t)[Len(s) + p] = t[p]
<1>1. Len(s) \in Nat /\ Len(t) \in Nat
  OBVIOUS
<1>2. /\ s \o t \in Seq(Symbols)
      /\ Len(s \o t) = Len(s) + Len(t)
      /\ \A i \in 1 .. Len(s) + Len(t) :
           (s \o t)[i] = IF i <= Len(s) THEN s[i] ELSE t[i - Len(s)]
  BY ConcatProperties
<1>3. \A p \in 1..Len(s) : p \in 1 .. Len(s) + Len(t) /\ p <= Len(s)
  BY <1>1
<1>4. \A p \in 1..Len(t) : /\ Len(s) + p \in 1 .. Len(s) + Len(t) /\ ~(Len(s) + p <= Len(s))
                           /\ Len(s) + p - Len(s) = p
  BY <1>1
<1> QED
  BY <1>1, <1>2, <1>3, <1>4

LEMMA Associative ==
    \A a, b, c \in Seq(Symbols) : (a \o b) \o c = a \o (b \o c)
<1> TAKE a, b, c \in Seq(Symbols)
<1> QED
  BY ONLY a \in Seq(Symbols), b \in Seq(Symbols), c \in Seq(Symbols), ConcatAssociative, SMT

(* What is under way or in RX, and the places of the marks in it. *)
Stream == rx \o uart

MarkPlaces == {p \in 1..Len(Stream) : \E c \in Writing : Stream[p] = Mark(c)}

(* Every write is owed to the line f names and every mark to the line g    *)
(* names, a later one than those the writes are owed to.                   *)
Owed(f, g) ==
    /\ f \in [Writes -> 1..Len(sent)]
    /\ Increasing(f)
    /\ \A i \in Writes : sent[f[i]] = CommandLine(ran[i])
    /\ g \in [MarkPlaces -> 1..Len(sent)]
    /\ Increasing(g)
    /\ \A p \in MarkPlaces : \A c \in Writing :
         Stream[p] = Mark(c) => sent[g[p]] = CommandLine(c)
    /\ \A i \in Writes : \A p \in MarkPlaces : f[i] < g[p]

SentInv ==
    /\ sent \in Seq(Lines)
    /\ ran \in Seq(Commands)
    /\ \E f, g : Owed(f, g)

(* The stream loses n tokens after the first k. *)
Drops(k, n) ==
    /\ Len(Stream') = Len(Stream) - n
    /\ \A p \in 1..Len(Stream') : Stream'[p] = Stream[IF p <= k THEN p ELSE p + n]

LEMMA StreamType ==
    ASSUME TypeOK
    PROVE  /\ Stream \in Seq(Symbols)
           /\ Len(Stream) = Len(rx) + Len(uart)
           /\ Len(rx) \in Nat /\ Len(uart) \in Nat
           /\ \A p \in 1..Len(rx) : Stream[p] = rx[p]
           /\ \A p \in 1..Len(uart) : Stream[Len(rx) + p] = uart[p]
BY Joined DEF TypeOK, Stream

(* Where a mark of what is left was before. *)
LEMMA MarksLeft ==
    ASSUME TypeOK, NEW k \in Nat, NEW n \in Nat, k + n <= Len(Stream), Drops(k, n),
           NEW p \in MarkPlaces'
    PROVE  /\ (IF p <= k THEN p ELSE p + n) \in MarkPlaces
           /\ Stream'[p] = Stream[IF p <= k THEN p ELSE p + n]
           /\ p \in Nat
<1>1. Len(Stream) \in Nat
  BY StreamType
<1>2. p \in 1..Len(Stream') /\ \E c \in Writing : Stream'[p] = Mark(c)
  BY DEF MarkPlaces
<1>3. (IF p <= k THEN p ELSE p + n) \in 1..Len(Stream)
  BY <1>1, <1>2 DEF Drops
<1> QED
  BY <1>2, <1>3 DEF Drops, MarkPlaces

(* Tokens lost owe nothing. *)
LEMMA LossStep ==
    ASSUME TypeOK, NEW f, NEW g, Owed(f, g), sent' = sent,
           Writes' = Writes, \A i \in Writes : ran'[i] = ran[i],
           NEW k \in Nat, NEW n \in Nat, k + n <= Len(Stream), Drops(k, n)
    PROVE  \E g2 : Owed(f, g2)'
<1> DEFINE from(p) == IF p <= k THEN p ELSE p + n
<1>1. ASSUME NEW p \in MarkPlaces'
      PROVE  from(p) \in MarkPlaces /\ Stream'[p] = Stream[from(p)] /\ p \in Nat
  BY MarksLeft
<1>2. ASSUME NEW p \in MarkPlaces', NEW q \in MarkPlaces', p < q
      PROVE  from(p) < from(q)
  BY <1>1, <1>2
<1> HIDE DEF from
<1>3. PICK g2 : g2 = [p \in MarkPlaces' |-> g[from(p)]]
  OBVIOUS
<1>4. g2 \in [MarkPlaces' -> 1..Len(sent')]
  BY <1>1, <1>3 DEF Owed
<1>5. Increasing(g2)
  BY <1>1, <1>2, <1>3 DEF Owed, Increasing
<1>6. \A p \in MarkPlaces' : g2[p] = g[from(p)]
  BY <1>3
<1>7. /\ f \in [Writes' -> 1..Len(sent')]
      /\ Increasing(f)
      /\ \A i \in Writes' : sent'[f[i]] = CommandLine(ran'[i])
  BY DEF Owed
<1>8. \A p \in MarkPlaces' : \A c \in Writing :
         Stream'[p] = Mark(c) => sent'[g2[p]] = CommandLine(c)
  BY <1>1, <1>6 DEF Owed
<1>9. \A i \in Writes' : \A p \in MarkPlaces' : f[i] < g2[p]
  BY <1>1, <1>6 DEF Owed
<1>10. Owed(f, g2)'
  BY <1>4, <1>5, <1>7, <1>8, <1>9 DEF Owed, Increasing
<1> QED
  BY <1>10

(* A write uses up the mark in its frame, and with it what was before it. *)
LEMMA WriteStep ==
    ASSUME TypeOK, SentInv, NEW f, NEW g, Owed(f, g), sent' = sent,
           NEW c \in Writing, ran' = Append(ran, c),
           NEW n \in Nat, n <= Len(Stream), Drops(0, n),
           NEW q \in 1..n, Stream[q] = Mark(c)
    PROVE  \E f2, g2 : Owed(f2, g2)'
<1> SUFFICES ASSUME NEW m \in Nat, m = Len(ran) PROVE \E f2, g2 : Owed(f2, g2)'
  BY DEF SentInv
<1>1. Len(Stream) \in Nat
  BY StreamType
<1>2. q \in MarkPlaces
  BY <1>1 DEF MarkPlaces
<1>3. ASSUME NEW p \in MarkPlaces'
      PROVE  p + n \in MarkPlaces /\ Stream'[p] = Stream[p + n] /\ p \in Nat /\ p > 0
  <2>1. p \in 1..Len(Stream')
    BY DEF MarkPlaces
  <2>2. p \in Nat /\ ~(p <= 0) /\ 0 + n <= Len(Stream)
    BY <2>1
  <2> QED
    BY <2>2, MarksLeft
<1>4. /\ Writes' = Writes \cup {m + 1} /\ Writes \subseteq 1..m
      /\ \A i \in Writes : ran'[i] = ran[i]
      /\ ran'[m + 1] = c
  BY DEF SentInv, Writes, Commands, Writing
<1>5. PICK f2 : f2 = [i \in Writes' |-> IF i = m + 1 THEN g[q] ELSE f[i]]
  OBVIOUS
<1>6. PICK g2 : g2 = [p \in MarkPlaces' |-> g[p + n]]
  OBVIOUS
<1>7. /\ f2[m + 1] = g[q] /\ \A i \in Writes : f2[i] = f[i] /\ i < m + 1
      /\ \A p \in MarkPlaces' : g2[p] = g[p + n]
      /\ DOMAIN f2 = Writes' /\ DOMAIN g2 = MarkPlaces'
  <2>1. m + 1 \in Writes' /\ \A i \in Writes : i \in Writes' /\ i < m + 1 /\ i # m + 1
    BY <1>4
  <2>2. f2[m + 1] = g[q]
    BY ONLY <1>5, <2>1, Zenon
  <2>3. \A i \in Writes : f2[i] = f[i]
    BY ONLY <1>5, <2>1
  <2> QED
    BY ONLY <1>5, <1>6, <2>1, <2>2, <2>3
<1>8. g[q] \in 1..Len(sent) /\ sent[g[q]] = CommandLine(c)
  BY <1>2 DEF Owed
<1>9. f2 \in [Writes' -> 1..Len(sent')]
  BY <1>4, <1>5, <1>8 DEF Owed
<1>10. g2 \in [MarkPlaces' -> 1..Len(sent')]
  BY <1>3, <1>6 DEF Owed
<1>11. Increasing(f2)
  <2>1. \A i \in Writes : f[i] < g[q]
    BY <1>2 DEF Owed
  <2>2. \A i, j \in Writes : i < j => f[i] < f[j]
    BY DEF Owed, Increasing
  <2>3. \A i, j \in Writes' : i < j => f2[i] < f2[j]
    BY <1>4, <1>7, <2>1, <2>2
  <2> QED
    BY <1>7, <2>3 DEF Increasing
<1>12. Increasing(g2)
  <2>1. \A i, j \in MarkPlaces : i < j => g[i] < g[j]
    BY DEF Owed, Increasing
  <2>2. \A i, j \in MarkPlaces' : i < j => g2[i] < g2[j]
    BY <1>3, <1>7, <2>1
  <2> QED
    BY <1>7, <2>2 DEF Increasing
<1>13. \A i \in Writes' : sent'[f2[i]] = CommandLine(ran'[i])
  BY <1>4, <1>7, <1>8 DEF Owed
<1>14. ASSUME NEW p \in MarkPlaces', NEW d \in Writing, Stream'[p] = Mark(d)
       PROVE  sent'[g2[p]] = CommandLine(d)
  <2>1. p + n \in MarkPlaces /\ Stream[p + n] = Mark(d)
    BY <1>3, <1>14
  <2>2. sent[g[p + n]] = CommandLine(d)
    BY <2>1 DEF Owed
  <2> QED
    BY <1>7, <2>2
<1>15. \A i \in Writes' : \A p \in MarkPlaces' : f2[i] < g2[p]
  <2>1. \A p \in MarkPlaces' : g[q] < g[p + n]
    BY <1>2, <1>3 DEF Owed, Increasing
  <2>2. \A i \in Writes : \A p \in MarkPlaces' : f[i] < g[p + n]
    BY <1>3 DEF Owed
  <2> QED
    BY <1>4, <1>7, <2>1, <2>2
<1>16. Owed(f2, g2)'
  BY <1>9, <1>10, <1>11, <1>12, <1>13, <1>14, <1>15 DEF Owed, Increasing
<1> QED
  BY <1>16

(* A line sent brings the mark it may hold. *)
LEMMA SendStep ==
    ASSUME TypeOK, SentInv, NEW f, NEW g, Owed(f, g), UNCHANGED <<ran, rx>>,
           NEW line \in Lines, sent' = Append(sent, line), uart' = uart \o line
    PROVE  \E g2 : Owed(f, g2)'
<1> SUFFICES ASSUME NEW m \in Nat, m = Len(sent), NEW s \in Nat, s = Len(Stream)
             PROVE  \E g2 : Owed(f, g2)'
  BY StreamType DEF SentInv
<1>1. /\ line \in Seq(Symbols) /\ Len(line) \in Nat
      /\ Stream \in Seq(Symbols) /\ rx \in Seq(Symbols) /\ uart \in Seq(Symbols)
  <2>1. line \in Seq(Symbols)
    BY ConstantsOK DEF Symbols
  <2>2. /\ Stream \in Seq(Symbols) /\ rx \in Seq(Symbols) /\ uart \in Seq(Symbols)
    BY StreamType, Zenon DEF TypeOK
  <2> QED
    BY ONLY <2>1, <2>2
<1>2. /\ Stream' = Stream \o line
      /\ Len(Stream') = s + Len(line)
      /\ \A p \in 1..s : Stream'[p] = Stream[p]
      /\ \A p \in 1..Len(line) : Stream'[s + p] = line[p]
  <2>1. Stream' = Stream \o line
    <3>1. Stream' = rx \o (uart \o line)
      BY DEF Stream
    <3>2. (rx \o uart) \o line = rx \o (uart \o line)
      BY ONLY <1>1, Associative, Zenon
    <3> QED
      BY <3>1, <3>2 DEF Stream
  <2>2. /\ Len(Stream \o line) = Len(Stream) + Len(line)
        /\ \A p \in 1..Len(Stream) : (Stream \o line)[p] = Stream[p]
        /\ \A p \in 1..Len(line) : (Stream \o line)[Len(Stream) + p] = line[p]
    BY ONLY <1>1, Joined, Zenon
  <2> QED
    BY ONLY s = Len(Stream), <2>1, <2>2, Zenon
<1>3. Len(sent') = m + 1 /\ sent'[m + 1] = line /\ \A i \in 1..m : sent'[i] = sent[i]
  BY DEF SentInv
<1>4. Writes' = Writes
  BY DEF Writes
<1>5. ASSUME NEW p \in MarkPlaces', p <= s PROVE p \in MarkPlaces
  BY <1>2, <1>5 DEF MarkPlaces
<1>6. ASSUME NEW p \in MarkPlaces', p > s
      PROVE  p - s \in 1..Len(line) /\ line[p - s] = Stream'[p]
  <2>1. p \in 1..s + Len(line)
    BY <1>2 DEF MarkPlaces
  <2>2. p - s \in 1..Len(line) /\ s + (p - s) = p
    BY <1>1, <1>6, <2>1
  <2> QED
    BY <1>2, <2>2
<1>7. MarkPlaces' \subseteq Nat
  BY DEF MarkPlaces
<1>8. PICK g2 : g2 = [p \in MarkPlaces' |-> IF p <= s THEN g[p] ELSE m + 1]
  OBVIOUS
<1>9. /\ DOMAIN g2 = MarkPlaces'
      /\ \A p \in MarkPlaces' : p <= s => g2[p] = g[p] /\ g[p] \in 1..m
      /\ \A p \in MarkPlaces' : p > s => g2[p] = m + 1
  BY <1>5, <1>7, <1>8 DEF Owed
<1>10. g2 \in [MarkPlaces' -> 1..Len(sent')]
  BY <1>3, <1>5, <1>8 DEF Owed
<1>11. Increasing(g2)
  <2>1. ASSUME NEW p \in MarkPlaces', NEW q \in MarkPlaces', p < q
        PROVE  g2[p] < g2[q]
    <3>1. CASE q <= s
      <4>1. p <= s /\ p \in MarkPlaces /\ q \in MarkPlaces
        BY <1>5, <1>7, <2>1, <3>1
      <4> QED
        BY <1>9, <2>1, <3>1, <4>1 DEF Owed, Increasing
    <3>2. CASE q > s /\ p <= s
      BY <1>9, <3>2
    <3>3. CASE q > s /\ p > s
      <4>1. PICK c \in Writing : Stream'[p] = Mark(c)
        BY DEF MarkPlaces
      <4>2. PICK d \in Writing : Stream'[q] = Mark(d)
        BY DEF MarkPlaces
      <4>3. p - s = q - s
        <5>1. /\ p - s \in 1..Len(line) /\ line[p - s] = Mark(c)
              /\ q - s \in 1..Len(line) /\ line[q - s] = Mark(d)
          BY ONLY p \in MarkPlaces', q \in MarkPlaces', <1>6, <3>3, <4>1, <4>2
        <5> QED
          BY ONLY line \in Lines, c \in Writing, d \in Writing, <5>1, OneMark, SMT
      <4> QED
        BY <1>7, <2>1, <4>3
    <3> QED
      BY <1>7, <3>1, <3>2, <3>3
  <2> QED
    BY <1>9, <2>1 DEF Increasing
<1>12. f \in [Writes' -> 1..Len(sent')] /\ Increasing(f)
  BY <1>3, <1>4 DEF Owed
<1>13. \A i \in Writes' : sent'[f[i]] = CommandLine(ran'[i])
  BY <1>3, <1>4 DEF Owed
<1>14. ASSUME NEW p \in MarkPlaces', NEW c \in Writing, Stream'[p] = Mark(c)
       PROVE  sent'[g2[p]] = CommandLine(c)
  <2>1. CASE p <= s
    <3>1. p \in MarkPlaces /\ Stream[p] = Mark(c)
      BY <1>2, <1>5, <1>14, <2>1 DEF MarkPlaces
    <3>2. sent[g[p]] = CommandLine(c)
      BY <3>1 DEF Owed
    <3> QED
      BY <1>3, <1>9, <2>1, <3>2
  <2>2. CASE p > s
    <3>1. p - s \in 1..Len(line) /\ line[p - s] = Mark(c)
      BY <1>6, <1>14, <2>2
    <3>2. line = CommandLine(c)
      BY <3>1, OneMark
    <3> QED
      BY <1>3, <1>9, <2>2, <3>2
  <2>3. p \in Nat /\ (p <= s \/ p > s)
    BY <1>7
  <2> QED
    BY <2>1, <2>2, <2>3
<1>15. ASSUME NEW i \in Writes', NEW p \in MarkPlaces' PROVE f[i] < g2[p]
  <2>1. f[i] \in 1..m
    BY <1>4 DEF Owed
  <2>2. CASE p <= s
    BY <1>4, <1>5, <1>9, <2>2 DEF Owed
  <2>3. CASE p > s
    BY <1>9, <2>1, <2>3
  <2> QED
    BY <1>7, <2>2, <2>3
<1>16. Owed(f, g2)'
  BY <1>10, <1>11, <1>12, <1>13, <1>14, <1>15 DEF Owed, Increasing
<1> QED
  BY <1>16

(* What each step loses of the stream. *)
LEMMA NothingDropped ==
    ASSUME TypeOK, UNCHANGED <<rx, uart>>
    PROVE  Drops(0, 0)
<1>1. Stream' = Stream /\ Len(Stream) \in Nat
  BY StreamType DEF Stream
<1>2. \A p \in 1..Len(Stream) : p + 0 = p
  BY <1>1
<1> QED
  BY <1>1, <1>2 DEF Drops

(* What is left when RX loses its first d tokens. *)
LEMMA FrontDropped ==
    ASSUME TypeOK, NEW d \in Nat, d <= Len(rx), rx' \in Seq(Symbols),
           Len(rx') = Len(rx) - d, \A i \in 1..Len(rx') : rx'[i] = rx[i + d], uart' = uart
    PROVE  Drops(0, d) /\ d <= Len(Stream)
<1>1. /\ Len(Stream) = Len(rx) + Len(uart) /\ Len(rx) \in Nat /\ Len(uart) \in Nat
      /\ \A p \in 1..Len(rx) : Stream[p] = rx[p]
      /\ \A p \in 1..Len(uart) : Stream[Len(rx) + p] = uart[p]
  BY StreamType
<1>2. /\ Len(Stream') = Len(rx') + Len(uart) /\ Len(rx') \in Nat
      /\ \A p \in 1..Len(rx') : Stream'[p] = rx'[p]
      /\ \A p \in 1..Len(uart) : Stream'[Len(rx') + p] = uart[p]
  <2>1. uart \in Seq(Symbols) /\ Stream' = rx' \o uart
    BY DEF TypeOK, Stream
  <2> QED
    BY <2>1, Joined
<1>3. ASSUME NEW p \in 1..Len(Stream') PROVE Stream'[p] = Stream[p + d]
  <2>1. CASE p <= Len(rx')
    <3>1. p \in 1..Len(rx') /\ p + d \in 1..Len(rx)
      BY <1>1, <1>2, <2>1
    <3> QED
      BY <1>1, <1>2, <3>1
  <2>2. CASE ~(p <= Len(rx'))
    <3>1. PICK i \in 1..Len(uart) : p = Len(rx') + i
      <4>1. p - Len(rx') \in 1..Len(uart) /\ p = Len(rx') + (p - Len(rx'))
        BY <1>1, <1>2, <2>2
      <4> QED
        BY <4>1
    <3>2. p + d = Len(rx) + i
      BY <1>1, <1>2, <3>1
    <3> QED
      BY <1>1, <1>2, <3>1, <3>2
  <2> QED
    BY <2>1, <2>2
<1>4. Len(Stream') = Len(Stream) - d /\ d <= Len(Stream)
  BY <1>1, <1>2
<1>5. \A p \in 1..Len(Stream') : ~(p <= 0)
  OBVIOUS
<1> QED
  BY <1>3, <1>4, <1>5 DEF Drops

(* RX is cleared. *)
LEMMA RxDropped ==
    ASSUME TypeOK, rx' = <<>>, uart' = uart
    PROVE  /\ Drops(0, Len(rx)) /\ Len(rx) <= Len(Stream)
           /\ Len(rx) \in Nat
<1>1. Len(rx) \in Nat
  BY StreamType
<1>2. rx' \in Seq(Symbols) /\ Len(rx') = Len(rx) - Len(rx)
  BY <1>1
<1>3. \A i \in 1..Len(rx') : rx'[i] = rx[i + Len(rx)]
  OBVIOUS
<1> QED
  BY <1>1, <1>2, <1>3, FrontDropped

(* The power is lost. *)
LEMMA AllDropped ==
    ASSUME TypeOK, rx' = <<>>, uart' = <<>>
    PROVE  Drops(0, Len(Stream)) /\ Len(Stream) \in Nat
<1>1. Len(Stream) \in Nat
  BY StreamType
<1>2. Stream' = <<>> /\ Len(Stream') = 0
  BY DEF Stream
<1> QED
  BY <1>1, <1>2 DEF Drops

(* What is read goes on in RX, or is dropped from the middle. *)
LEMMA ReadDropped ==
    ASSUME TypeOK, NEW n \in 1..Chunk, PullSome(n)
    PROVE  \E k, d \in Nat : k + d <= Len(Stream) /\ Drops(k, d)
<1>0. n \in Nat /\ n >= 1 /\ n <= Len(uart)
  BY ConstantsOK DEF PullSome, Readable
<1>1. /\ rx \in Seq(Symbols) /\ uart \in Seq(Symbols)
      /\ Len(rx) \in Nat /\ Len(uart) \in Nat /\ Len(Stream) = Len(rx) + Len(uart)
      /\ \A p \in 1..Len(rx) : Stream[p] = rx[p]
      /\ \A p \in 1..Len(uart) : Stream[Len(rx) + p] = uart[p]
  BY StreamType DEF TypeOK
<1> DEFINE front == SubSeq(uart, 1, n)
           rest == SubSeq(uart, n + 1, Len(uart))
<1>2. /\ front \in Seq(Symbols) /\ Len(front) = n
      /\ \A i \in 1..n : front[i] = uart[i]
  <2>1. \A i \in 1..n : uart[i] \in Symbols
    BY <1>0, <1>1
  <2>2. \A i \in 1 .. n - 1 + 1 : front[i] = uart[1 + i - 1]
    BY <1>0, <2>1, SubSeqProperties
  <2>3. front \in Seq(Symbols) /\ Len(front) = n
    BY <1>0, <2>1, SubSeqProperties
  <2> QED
    BY <1>0, <2>2, <2>3
<1>3. /\ rest \in Seq(Symbols) /\ Len(rest) = Len(uart) - n
      /\ \A i \in 1..Len(uart) - n : rest[i] = uart[n + i]
  <2>1. \A i \in n + 1 .. Len(uart) : uart[i] \in Symbols
    BY <1>0, <1>1
  <2>2. /\ rest \in Seq(Symbols)
        /\ Len(rest) = IF n + 1 <= Len(uart) THEN Len(uart) - (n + 1) + 1 ELSE 0
        /\ \A i \in 1 .. Len(uart) - (n + 1) + 1 : rest[i] = uart[(n + 1) + i - 1]
    BY <1>0, <1>1, <2>1, SubSeqProperties
  <2> QED
    BY <1>0, <1>1, <2>2
<1>4. uart' = rest
  BY DEF PullSome
<1>5. CASE Fits(n)
  <2>1. Stream' = (rx \o front) \o rest
    BY <1>4, <1>5 DEF PullSome, Stream
  <2> HIDE DEF front, rest
  <2>2. Stream' = rx \o (front \o rest)
    <3>1. (rx \o front) \o rest = rx \o (front \o rest)
      BY ONLY <1>1, <1>2, <1>3, Associative, Zenon
    <3> QED
      BY ONLY <2>1, <3>1, Zenon
  <2>3. front \o rest = uart
    <3>1. front \o rest = SubSeq(uart, 1, Len(uart))
      <4>1. /\ 1 \in 1 .. Len(uart) + 1 /\ n \in 1 - 1 .. Len(uart)
            /\ Len(uart) \in n .. Len(uart)
        BY <1>0, <1>1
      <4> QED
        BY <1>1, <4>1, ConcatAdjacentSubSeq DEF front, rest
    <3> QED
      BY <1>1, <3>1, SubSeqFull
  <2>4. Stream' = Stream /\ Len(Stream) \in Nat
    BY <1>1, <2>2, <2>3 DEF Stream
  <2>5. Drops(0, 0) /\ 0 + 0 <= Len(Stream)
    BY <2>4 DEF Drops
  <2> QED
    BY <2>5
<1>6. CASE ~Fits(n)
  <2>1. Stream' = rx \o rest
    BY <1>4, <1>6 DEF PullSome, Stream
  <2> HIDE DEF front, rest
  <2>2. /\ Len(Stream') = Len(rx) + (Len(uart) - n)
        /\ \A i \in 1..Len(rx) : Stream'[i] = rx[i]
        /\ \A i \in 1..Len(uart) - n : Stream'[Len(rx) + i] = rest[i]
    <3>1. /\ Len(rx \o rest) = Len(rx) + Len(rest)
          /\ \A i \in 1..Len(rx) : (rx \o rest)[i] = rx[i]
          /\ \A i \in 1..Len(rest) : (rx \o rest)[Len(rx) + i] = rest[i]
      BY <1>1, <1>3, Joined
    <3> QED
      BY <1>3, <2>1, <3>1
  <2>3. ASSUME NEW i \in 1..Len(Stream')
        PROVE  Stream'[i] = Stream[IF i <= Len(rx) THEN i ELSE i + n]
    <3>1. CASE i <= Len(rx)
      BY <1>0, <1>1, <2>2, <3>1
    <3>2. CASE ~(i <= Len(rx))
      <4>1. PICK j \in 1..Len(uart) - n : i = Len(rx) + j
        <5>1. i - Len(rx) \in 1..Len(uart) - n /\ i = Len(rx) + (i - Len(rx))
          BY <1>0, <1>1, <2>2, <3>2
        <5> QED
          BY <5>1
      <4>2. n + j \in 1..Len(uart) /\ i + n = Len(rx) + (n + j)
        BY <1>0, <1>1, <4>1
      <4> QED
        BY <1>1, <1>3, <2>2, <3>2, <4>1, <4>2
    <3> QED
      BY <3>1, <3>2
  <2>4. Len(Stream') = Len(Stream) - n /\ Len(rx) + n <= Len(Stream)
    BY <1>0, <1>1, <2>2
  <2>5. Drops(Len(rx), n)
    BY <2>3, <2>4 DEF Drops
  <2> QED
    BY <1>0, <1>1, <2>4, <2>5
<1> QED
  BY <1>5, <1>6

(* Steps that take up nothing, or run a command that writes nothing. *)
LEMMA SentLossStep ==
    ASSUME TypeOK, SentInv, sent' = sent,
           ran' = ran \/ \E c \in Commands \ Writing : ran' = Append(ran, c),
           NEW k \in Nat, NEW n \in Nat, k + n <= Len(Stream), Drops(k, n)
    PROVE  SentInv'
<1>1. ran' \in Seq(Commands)
  BY DEF SentInv
<1>2. Writes' = Writes /\ \A i \in Writes : ran'[i] = ran[i]
  <2>1. CASE ran' = ran
    BY <2>1 DEF Writes
  <2>2. ASSUME NEW c \in Commands \ Writing, ran' = Append(ran, c)
        PROVE  Writes' = Writes /\ \A i \in Writes : ran'[i] = ran[i]
    <3>1. /\ Len(ran) \in Nat /\ Len(ran') = Len(ran) + 1
          /\ DOMAIN ran = 1..Len(ran) /\ DOMAIN ran' = 1..Len(ran')
          /\ \A i \in 1..Len(ran) : ran'[i] = ran[i]
          /\ ran'[Len(ran) + 1] = c
      BY <2>2 DEF SentInv
    <3> QED
      BY <3>1 DEF Writes
  <2> QED
    BY <2>1, <2>2
<1>3. PICK f, g : Owed(f, g)
  BY DEF SentInv
<1>4. \E g2 : Owed(f, g2)'
  BY <1>2, <1>3, LossStep
<1> QED
  BY <1>1, <1>4 DEF SentInv

(* The frame that runs holds its mark, and goes with all before it. *)
LEMMA SentRun ==
    ASSUME TypeOK, SentInv, HRun
    PROVE  SentInv'
<1>1. PICK c \in Commands : Decodes(c) /\ ran' = Append(ran, c)
  BY DEF HRun
<1>2. sent' = sent /\ uart' = uart
  BY <1>1 DEF HRun, Decodes
<1>3. /\ rx \in Seq(Symbols) /\ Len(rx) \in Nat
      /\ Ends \subseteq 1..Len(rx) /\ Ends \subseteq Nat /\ Ends # {}
  BY <1>1 DEF TypeOK, Ends, Decodes
<1>4. FirstEnd \in 1..Len(rx)
  BY <1>3, FirstPosition DEF FirstEnd
<1>5. \/ rx' = SubSeq(rx, FirstEnd + 1, Len(rx))
      \/ rx' = <<>>
  BY DEF HRun, Run, GetInfo, GetStatus, GetProfile, SetProfile, ForgetBonds, Reboot,
         Respond, AfterFrame
<1>6. PICK n \in Nat : /\ Drops(0, n) /\ n <= Len(Stream)
                       /\ FirstEnd <= n /\ n <= Len(rx)
  <2>1. CASE rx' = SubSeq(rx, FirstEnd + 1, Len(rx))
    <3>1. \A i \in FirstEnd + 1 .. Len(rx) : rx[i] \in Symbols
      BY <1>3, <1>4
    <3>2. /\ rx' \in Seq(Symbols)
          /\ Len(rx') = IF FirstEnd + 1 <= Len(rx) THEN Len(rx) - (FirstEnd + 1) + 1 ELSE 0
          /\ \A i \in 1 .. Len(rx) - (FirstEnd + 1) + 1 :
               rx'[i] = rx[(FirstEnd + 1) + i - 1]
      BY <1>3, <1>4, <2>1, <3>1, SubSeqProperties
    <3>3. /\ Len(rx') = Len(rx) - FirstEnd
          /\ \A i \in 1..Len(rx') : rx'[i] = rx[i + FirstEnd]
      <4>1. PICK l \in Nat, e \in Nat : l = Len(rx) /\ e = FirstEnd /\ 1 <= e /\ e <= l
        BY <1>3, <1>4
      <4>2. Len(rx') = l - e
        BY ONLY <3>2, <4>1
      <4>3. \A i \in 1..l - e : i \in 1 .. l - (e + 1) + 1 /\ (e + 1) + i - 1 = i + e
        BY ONLY <4>1
      <4> QED
        BY ONLY <3>2, <4>1, <4>2, <4>3
    <3>4. FirstEnd \in Nat /\ FirstEnd <= Len(rx)
      BY <1>3, <1>4
    <3>5. rx' \in Seq(Symbols)
      BY <3>2
    <3>6. Drops(0, FirstEnd) /\ FirstEnd <= Len(Stream)
      BY <1>2, <3>3, <3>4, <3>5, FrontDropped
    <3> QED
      BY <3>4, <3>6
  <2>2. CASE rx' = <<>>
    BY <1>2, <1>3, <1>4, <2>2, RxDropped
  <2> QED
    BY <1>5, <2>1, <2>2
<1>7. CASE c \in Writing
  <2>1. PICK i \in 1..Len(Text[c]) : Text[c][i] = Mark(c)
    BY <1>7, MarkOf, LineOfCommand DEF Marks
  <2>2. Len(Text[c]) = FirstEnd - 1 /\ \A j \in 1 .. FirstEnd - 1 : Text[c][j] = rx[j]
    <3>1. Text[c] = SubSeq(rx, 1, FirstEnd - 1)
      BY <1>1 DEF Decodes, Frame
    <3>2. \A j \in 1 .. FirstEnd - 1 : rx[j] \in Symbols
      BY <1>3, <1>4
    <3>3. /\ Len(Text[c]) = IF 1 <= FirstEnd - 1 THEN FirstEnd - 1 - 1 + 1 ELSE 0
          /\ \A j \in 1 .. FirstEnd - 1 - 1 + 1 : Text[c][j] = rx[1 + j - 1]
      BY <1>3, <1>4, <3>1, <3>2, SubSeqProperties
    <3> QED
      BY <1>3, <1>4, <3>3
  <2>3. i \in 1..n /\ i \in 1..Len(rx) /\ rx[i] = Mark(c)
    BY <1>3, <1>4, <1>6, <2>1, <2>2
  <2>4. Stream[i] = Mark(c)
    BY <2>3, StreamType
  <2>5. PICK f, g : Owed(f, g)
    BY DEF SentInv
  <2>6. \E f2, g2 : Owed(f2, g2)'
    BY <1>1, <1>2, <1>6, <1>7, <2>3, <2>4, <2>5, WriteStep
  <2>7. ran' \in Seq(Commands)
    BY <1>1 DEF SentInv
  <2> QED
    BY <1>2, <2>6, <2>7 DEF SentInv
<1>8. CASE c \notin Writing
  <2>1. 0 + n <= Len(Stream)
    BY <1>6
  <2> QED
    BY <1>1, <1>2, <1>6, <1>8, <2>1, SentLossStep
<1> QED
  BY <1>7, <1>8

(* No command that writes runs unless it was sent, once for each time it   *)
(* was and in that order, whatever is lost of what is under way and        *)
(* whatever the pieces left make up.                                       *)
THEOREM WritesWereSent == HSpec => []OnlySentWritesRun
<1> DEFINE Inv == TypeOK /\ SentInv
<1>1. HInit => Inv
  <2> SUFFICES ASSUME HInit PROVE Inv
    OBVIOUS
  <2>1. TypeOK
    BY ConstantsOK, EntriesOK DEF HInit, Init, TypeOK, Opening
  <2>2. sent = <<>> /\ ran = <<>> /\ Writes = {} /\ MarkPlaces = {}
    <3>1. Stream = <<>> /\ Len(Stream) = 0
      BY DEF HInit, Init, Stream
    <3> QED
      BY <3>1 DEF HInit, Writes, MarkPlaces
  <2>3. PICK none : none = [i \in {} |-> 0]
    OBVIOUS
  <2>4. Owed(none, none)
    BY <2>2, <2>3 DEF Owed, Increasing
  <2> QED
    BY <2>1, <2>2, <2>4 DEF SentInv
<1>2. Inv /\ [HNext]_hvars => Inv'
  <2> SUFFICES ASSUME TypeOK, SentInv, [HNext]_hvars PROVE TypeOK' /\ SentInv'
    OBVIOUS
  <2>1. [Next]_vars
    BY DEF HNext, HSend, HLoop, HPull, HRun, HFlush, HPowerCycle, hvars, Next, Peer, Loop, Service
  <2>2. ASSUME UNCHANGED <<rx, uart, sent, ran>> PROVE SentInv'
    BY <2>2, StreamType, NothingDropped, SentLossStep
  <2>3. ASSUME NEW line \in Lines, HSend(line) PROVE SentInv'
    <3>1. PICK f, g : Owed(f, g)
      BY DEF SentInv
    <3>2. \E g2 : Owed(f, g2)'
      BY <2>3, <3>1, SendStep DEF HSend, Send
    <3>3. sent' \in Seq(Lines) /\ ran' \in Seq(Commands)
      BY <2>3 DEF HSend, SentInv
    <3> QED
      BY <3>2, <3>3 DEF SentInv
  <2>4. ASSUME HPull PROVE SentInv'
    BY <2>4, ReadDropped, SentLossStep DEF HPull, Pull
  <2>5. ASSUME Malformed, UNCHANGED <<sent, ran>> PROVE SentInv'
    <3>1. Drops(0, Len(rx)) /\ 0 + Len(rx) <= Len(Stream) /\ Len(rx) \in Nat
      BY <2>5, RxDropped DEF Malformed, AfterMalformed
    <3> QED
      BY <2>5, <3>1, SentLossStep
  <2>6. ASSUME HPowerCycle PROVE SentInv'
    <3>1. Drops(0, Len(Stream)) /\ 0 + Len(Stream) <= Len(Stream) /\ Len(Stream) \in Nat
      BY <2>6, AllDropped DEF HPowerCycle, PowerCycle
    <3> QED
      BY <2>6, <3>1, SentLossStep DEF HPowerCycle
  <2>7. ASSUME HRun PROVE SentInv'
    BY <2>7, SentRun
  <2>8. ASSUME (Boot \/ PullNothing \/ NoFrame), UNCHANGED <<sent, ran>> PROVE SentInv'
    BY <2>2, <2>8
       DEF Boot, OpenProfileStore, OpenBondStore, OpenConsole, Opens, Bootstrap,
           PullNothing, NoFrame
  <2>9. ASSUME NEW written \in BOOLEAN, HFlush(written) PROVE SentInv'
    BY <2>2, <2>9 DEF HFlush, Flush
  <2>10. ASSUME UNCHANGED hvars PROVE SentInv'
    BY <2>2, <2>10 DEF hvars, vars
  <2>11. SentInv'
    BY <2>3, <2>4, <2>5, <2>6, <2>7, <2>8, <2>9, <2>10 DEF HNext, HLoop
  <2> QED
    BY <2>1, <2>11, TypeStep
<1>3. Inv => OnlySentWritesRun
  <2> SUFFICES ASSUME SentInv PROVE OnlySentWritesRun
    OBVIOUS
  <2>1. PICK f, g : Owed(f, g)
    BY DEF SentInv
  <2>2. DOMAIN sent = 1..Len(sent)
    BY DEF SentInv
  <2> QED
    BY <2>1, <2>2 DEF Owed, OnlySentWritesRun
<1> QED
  BY <1>1, <1>2, <1>3, PTL DEF HSpec
=============================================================================
