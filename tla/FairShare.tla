------------------------------ MODULE FairShare ------------------------------
(***************************************************************************)
(* The fairshare collector, internal/collector/fairshare.go: what          *)
(* ParseFairShareMetrics and tryCollect make of sshare's listing of the    *)
(* associations of users with accounts.                                    *)
(*                                                                         *)
(* The actions are slurmdbd's and the administrator's.  The listing and    *)
(* the series are functions of that state.  Of the five figures of a line  *)
(* two are kept, the shares and the usage; the others are copied like them.*)
(***************************************************************************)
EXTENDS Integers, SequencesExt

CONSTANTS
  Accounts,      \* as sshare lists them, the root first; one may be listed again
  Above,         \* the account that an account is part of
  ShareUsers,    \* in sshare's order
  Clusterwide,   \* the partition of an association with none
  InPartitions,  \* partitions that an association may be limited to
  MaxUsage,      \* bound of the model: usage of an association
  MaxAssociations \* bound of the model: associations there are at once

Blank == ""

ASSUME FairShareAssumption ==
  /\ Accounts \in Seq(STRING)
  /\ ShareUsers \in Seq(STRING)
  /\ Blank \notin ToSet(Accounts) \cup ToSet(ShareUsers)
  /\ Above \in [ToSet(Tail(Accounts)) -> ToSet(Accounts)]
  /\ Clusterwide \notin InPartitions
  /\ {MaxUsage, MaxAssociations} \subseteq Nat

VARIABLES
  associations,  \* the shares and the usage of each
  accountShares  \* the shares of each account in the one above it

shareVars == <<associations, accountShares>>

Keys == [account : ToSet(Accounts), user : ToSet(ShareUsers),
         partition : {Clusterwide} \cup InPartitions]

\* "parent": the association, or the account, has no shares of its own.
parent == 0

ShareTypeOK ==
  /\ DOMAIN associations \subseteq Keys
  /\ \A k \in DOMAIN associations :
       associations[k] \in [shares : {parent, 1}, usage : 0 .. MaxUsage]
  /\ accountShares \in [ToSet(Accounts) -> {parent, 1}]

ShareInit == /\ associations = << >>
             /\ accountShares = [a \in ToSet(Accounts) |-> 1]

-----------------------------------------------------------------------------
(* slurmdbd.                                                               *)

\* sacctmgr add user, for all partitions or for one.
Associate(k) ==
  /\ k \notin DOMAIN associations
  /\ Cardinality(DOMAIN associations) < MaxAssociations
  /\ associations' = [l \in DOMAIN associations \cup {k} |->
                        IF l = k THEN [shares |-> 1, usage |-> 0] ELSE associations[l]]
  /\ UNCHANGED accountShares

Dissociate(k) ==
  /\ k \in DOMAIN associations
  /\ associations' = [l \in DOMAIN associations \ {k} |-> associations[l]]
  /\ UNCHANGED accountShares

\* sacctmgr modify user set fairshare
SetShares(k, shares) ==
  /\ k \in DOMAIN associations
  /\ associations' = [associations EXCEPT ![k].shares = shares]
  /\ UNCHANGED accountShares

\* sacctmgr modify account set fairshare; the root has none to inherit.
SetAccountShares(a, shares) ==
  /\ a # Head(Accounts)
  /\ accountShares' = [accountShares EXCEPT ![a] = shares]
  /\ UNCHANGED associations

\* A job of the association runs.
UsesCPU(k) ==
  /\ k \in DOMAIN associations
  /\ associations[k].usage < MaxUsage
  /\ associations' = [associations EXCEPT ![k].usage = @ + 1]
  /\ UNCHANGED accountShares

ShareNext ==
  \/ \E k \in Keys : \/ Associate(k) \/ Dissociate(k) \/ UsesCPU(k)
                     \/ \E shares \in {parent, 1} : SetShares(k, shares)
  \/ \E a \in ToSet(Accounts), shares \in {parent, 1} : SetAccountShares(a, shares)

ShareSpec == ShareInit /\ [][ShareNext]_shareVars

-----------------------------------------------------------------------------
(* sshare.                                                                 *)

UsageOf(keys) == SumFunction([k \in keys |-> associations[k].usage])

OfAccount(a) == {k \in DOMAIN associations : k.account = a}

\* The accounts that an account consists of, to the depth there is.
Within(a) ==
  LET below[n \in Nat] ==
        IF n = 0 THEN {a}
        ELSE below[n - 1] \cup {b \in DOMAIN Above : Above[b] \in below[n - 1]}
  IN below[Len(Accounts)]

UsageWithin(a) == UsageOf(UNION {OfAccount(b) : b \in Within(a)})

AccountLine(a) == [account |-> a, user |-> Blank, shares |-> accountShares[a],
                   usage |-> UsageWithin(a)]

\* One line for each association; its partition is not among the columns.
UserLine(k) == [account |-> k.account, user |-> k.user,
                shares |-> associations[k].shares, usage |-> associations[k].usage]

UserLines(a) ==
  LET Of(u) == SetToSeq({k \in OfAccount(a) : k.user = u})
  IN FlattenSeq([i \in DOMAIN ShareUsers |->
                   [j \in DOMAIN Of(ShareUsers[i]) |-> UserLine(Of(ShareUsers[i])[j])]])

FairShareData ==
  FlattenSeq([i \in DOMAIN Accounts |->
                <<AccountLine(Accounts[i])>> \o UserLines(Accounts[i])])

-----------------------------------------------------------------------------
(* The exporter.                                                           *)

\* Mutant: a line without shares of its own is a line with none.
AddMetric_parents(metrics, m) == IF m.account = Blank THEN metrics ELSE Append(metrics, m)

AddMetric(metrics, m) ==
  IF m.account = Blank \/ m.shares = parent THEN metrics ELSE Append(metrics, m)

ParseFairShareMetrics(lines) == FoldLeft(AddMetric, << >>, lines)

\* Mutant: the key of what was seen is the user alone.
Seen_user(emitted, m) == \E i \in DOMAIN emitted : emitted[i].user = m.user /\ m.user # Blank

\* Mutant: an account that is listed again is sent again.
Seen_users(emitted, m) ==
  m.user # Blank /\ \E i \in DOMAIN emitted : emitted[i].user = m.user
                                            /\ emitted[i].account = m.account

Seen(emitted, m) ==
  \E i \in DOMAIN emitted : emitted[i].user = m.user /\ emitted[i].account = m.account

\* The first line of a label set is emitted, for users if they are asked for.
Emit(emitted, m)        == IF Seen(emitted, m) THEN emitted ELSE Append(emitted, m)
EmitAccount(emitted, m) == IF m.user = Blank THEN Emit(emitted, m) ELSE emitted

tryCollect(userMetrics) ==
  LET metrics == ParseFairShareMetrics(FairShareData)
  IN IF userMetrics THEN FoldLeft(Emit, << >>, metrics) ELSE FoldLeft(EmitAccount, << >>, metrics)

-----------------------------------------------------------------------------
OwnShares(a, u) ==
  {k \in OfAccount(a) : k.user = u /\ associations[k].shares # parent}

\* Prometheus rejects a scrape with two series of the same name and labels.
LabelsAreUnique(series) ==
  \A i, j \in DOMAIN series :
    series[i].account = series[j].account /\ series[i].user = series[j].user => i = j

\* An account has its series by having shares that are not the parent's, and it
\* is of the account's line.
AccountIsShown(all, a) ==
  {m \in all : m.account = a /\ m.user = Blank} =
    IF accountShares[a] = parent THEN {} ELSE {AccountLine(a)}

\* The users of an account have used no more than it has, and exactly as much
\* if none of them is left out or associated twice.
UsageAddsUp(all, a) ==
  LET users == {m \in all : m.account = a /\ m.user # Blank}
      used  == SumFunction([m \in users |-> m.usage])
  IN /\ used <= UsageOf(OfAccount(a))
     /\ (\A k \in OfAccount(a) : associations[k].shares # parent /\ k.partition = Clusterwide)
          => used = UsageOf(OfAccount(a))

\* A user has a series in an account by having shares there that are not the
\* parent's, and it shows one such association.
UsersAreShown(all, a) ==
  \A u \in ToSet(ShareUsers) :
    LET shown == {[shares |-> m.shares, usage |-> m.usage] :
                    m \in {n \in all : n.account = a /\ n.user = u}}
    IN IF OwnShares(a, u) = {} THEN shown = {}
       ELSE \E k \in OwnShares(a, u) : shown = {associations[k]}

\* Whatever associations there are, and if accounts are listed again, the scrape is
\* valid: an account, or a user in it, has a series if and only if it has shares
\* of its own, and with user metrics the users' series are what their account's is
\* made of.  What an account with the parent's shares has used is in no series.
SharesAreConsistent ==
  \A userMetrics \in BOOLEAN :
    LET series == tryCollect(userMetrics)
    IN /\ LabelsAreUnique(series)
       /\ \A a \in ToSet(Accounts) :
            /\ AccountIsShown(ToSet(series), a)
            /\ userMetrics => /\ UsageAddsUp(ToSet(series), a)
                              /\ UsersAreShown(ToSet(series), a)
=============================================================================
