----------------------------- MODULE MCFeatures -----------------------------
(* What surrounds the work: getting into an account, templates,            *)
(* experiments, talk, what a worker shows, monitors, triggers, the cache   *)
(* of results and a requester's first steps.  These share no state, so     *)
(* each behaviour moves in one area of one of them.                        *)
EXTENDS Access, Templates, Experiments, Talk, Showcase, Monitors, Triggers,
        ResultCache, Welcome, TLC

(* As only one area moves, the same values can serve in all of them and    *)
(* be exchanged in all of them at once.                                    *)
CONSTANTS p1, p2, x1, x2, c1, c2, c3, s1, s2
Symmetry == Permutations({p1, p2}) \cup Permutations({x1, x2})

VARIABLE area
Areas == {"enter", "factor", "market", "library", "trials", "comments", "messages", "searches",
          "disputes", "pins", "badges", "weeks", "referrals", "sentries", "desk", "wallet", "triggers",
          "cache", "welcome"}

MCInit == /\ AccessInit /\ TemplatesInit /\ ExperimentsInit /\ TalkInit /\ ShowcaseInit
          /\ MonitorsInit /\ TriggersInit /\ CacheInit /\ WelcomeInit
          /\ area \in Areas

(* The second factor: an account, whose password may change; of secrets    *)
(* and sets of backup codes there are three.                               *)
FactorSteps == /\ \/ FactorNext
                  \/ \E r \in Requests : Read(r, "change") \/ ChangePassword(r) \/ RequestDies(r)
               /\ issued'.secret + issued'.enabling <= 3
FirstAccount == EnterNext /\ issued'.link <= 1
InAccess == IF area = "enter" THEN EnterNext
            ELSE IF account.exists THEN FactorSteps ELSE FirstAccount

(* Rows that are alike are inserted in one order.                          *)
Used(i) == item[i] # Absent \/ used[i] > 0 \/ taken[i] > 0
ItemsInOrder == /\ ~Used(c1) => item'[c2] = Absent
                /\ ~Used(c2) => item'[c3] = Absent
                /\ \A v \in Clients : client'[v].for = "own" =>
                     ~Used(c2)'
CommentsInOrder == /\ comment[c1].is = "none" => comment'[c2].is = "none"
                   /\ comment[c2].is = "none" => comment'[c3].is = "none"
SearchesInOrder == /\ search[c1].is = "none" => search'[c2].is = "none"
                   /\ search[c2].is = "none" => search'[c3].is = "none"

InTemplates == IF area = "market" THEN MarketNext ELSE LibraryNext /\ ItemsInOrder
InTalk == CASE area = "comments" -> CommentNext /\ CommentsInOrder
            [] area = "messages" -> MessageNext
            [] area = "searches" -> SearchNext /\ SearchesInOrder
            [] OTHER -> DisputeNext
InShowcase == CASE area = "pins" -> PieceNext
                [] area = "badges" -> BadgeNext
                [] area = "weeks" -> WeekNext
                [] OTHER -> HostNext
(* Two replicas whose sweeps end well, or one whose sweeps may fail while  *)
(* its requests do not.                                                    *)
InMonitors == CASE area = "sentries" -> SentryNext /\ \A s \in Sentries : sentry'[s].failing = 0
                [] area = "desk" -> SentryNext /\ sentry'[s2] = Booted /\ sentry'[s1].errors = 0
                [] OTHER -> WalletNext

Module == CASE area \in {"enter", "factor"} -> "access"
            [] area \in {"market", "library"} -> "templates"
            [] area \in {"comments", "messages", "searches", "disputes"} -> "talk"
            [] area \in {"pins", "badges", "weeks", "referrals"} -> "showcase"
            [] area \in {"sentries", "desk", "wallet"} -> "monitors"
            [] OTHER -> area
MCNext ==
  /\ UNCHANGED area
  /\ IF Module = "access" THEN InAccess ELSE UNCHANGED accessVars
  /\ IF Module = "templates" THEN InTemplates ELSE UNCHANGED templateVars
  /\ IF Module = "trials" THEN ExperimentsNext ELSE UNCHANGED experimentVars
  /\ IF Module = "talk" THEN InTalk ELSE UNCHANGED talkVars
  /\ IF Module = "showcase" THEN InShowcase ELSE UNCHANGED showcaseVars
  /\ IF Module = "monitors" THEN InMonitors ELSE UNCHANGED monitorVars
  /\ IF Module = "triggers" THEN TriggersNext ELSE UNCHANGED triggerVars
  /\ IF Module = "cache" THEN CacheNext ELSE UNCHANGED cacheVars
  /\ IF Module = "welcome" THEN WelcomeNext ELSE UNCHANGED welcomeVars
MCSpec == MCInit /\ [][MCNext]_<<area, accessVars, templateVars, experimentVars, talkVars,
                                 showcaseVars, monitorVars, triggerVars, cacheVars, welcomeVars>>
=============================================================================
