---------------------------- MODULE MCBashGate ----------------------------
EXTENDS BashGate

C(c) == [in |-> <<>>, pre |-> <<>>, cmd |-> c, by |-> "name", git |-> FALSE, to |-> <<>>, then |-> ";"]
Pre(ws, p) == [p EXCEPT !.pre = ws]
By(b, p) == [p EXCEPT !.by = b]
Then(op, p) == [p EXCEPT !.then = op]
To(target, p) == [p EXCEPT !.to = <<[writes |-> TRUE, literal |-> target # "$f", target |-> target]>>]
In(kinds, p) == [p EXCEPT !.in = [i \in DOMAIN kinds |-> [kind |-> kinds[i], id |-> 1, to |-> <<>>]]]
Into(kind, target, p) == [p EXCEPT !.in = <<[kind |-> kind, id |-> 1, to |-> To(target, p).to]>>]

Push == C(<<"git", "push">>)
Status == C(<<"git", "status">>)
Ls == C(<<"ls">>)
Cd == C(<<"cd", "d">>)
Diff == C(<<"kubectl", "diff", "-f", "m">>)
Apply == C(<<"kubectl", "apply", "-f", "m">>)
Upgrade == C(<<"helm", "upgrade", "r", "chart">>)
Plan == C(<<"terraform", "plan", "-out=p">>)

Commands1 ==
  "ls" :> <<Ls>>
  @@ "git status" :> <<Status>>
  @@ "git push" :> <<Push>>
  @@ "git -c k=v push" :> <<[Push EXCEPT !.git = TRUE]>>
  @@ "git -c k=v status" :> <<[Status EXCEPT !.git = TRUE]>>
  @@ "X=1 git status" :> <<Pre(<<"X=1">>, Status)>>
  @@ "export X=1; git status" :> <<C(<<"export", "X=1">>), Status>>
  @@ "sh -c 'git push'" :> <<In(<<"sh -c">>, Push)>>
  @@ "bash -lc ls" :> <<In(<<"sh -lc">>, Ls)>>
  @@ "echo $(git push)" :> <<In(<<"substitution">>, Push), C(<<"echo">>)>>
  @@ "{ git push; } > f" :> <<Pre(<<"{">>, Into("group", "f", Push))>>
  @@ "ls && timeout 9 git push" :> <<Then("&&", Ls), Pre(<<"timeout">>, Push)>>
  @@ "find | xargs git push" :> <<Then("|", C(<<"find">>)), Pre(<<"xargs">>, Push)>>
  @@ "find | xargs git" :> <<Then("|", C(<<"find">>)), Pre(<<"xargs">>, C(<<"git">>))>>
  @@ "find | xargs" :> <<Then("|", C(<<"find">>)), Pre(<<"xargs">>, C(<<>>))>>
  @@ "command -v git" :> <<Pre(<<"command -v">>, C(<<"git">>))>>
  @@ "env ls" :> <<Pre(<<"env">>, Ls)>>
  @@ "timeout 9 ls" :> <<Pre(<<"timeout">>, Ls)>>
  @@ "for x in a" :> <<Pre(<<"for">>, C(<<"a">>)), Ls>>
  @@ "$c push" :> <<By("expansion", C(<<"$c", "push">>))>>
  @@ "ls; eval s" :> <<Ls, C(<<"eval", "s">>)>>
  @@ "sudo ls" :> <<C(<<"sudo", "ls">>)>>
  @@ "env -S s" :> <<Pre(<<"env -S">>, C(<<"s">>))>>
  @@ "cat | bash" :> <<Then("|", C(<<"cat">>)), C(<<"bash", "stdin">>)>>
  @@ "curl | bash file" :> <<Then("|", C(<<"curl">>)), C(<<"bash", "file">>)>>
  @@ "bash file" :> <<C(<<"bash", "file">>)>>
  @@ "./ls" :> <<By("relative", Ls)>>
  @@ "/bin/git push" :> <<By("path", Push)>>
  @@ "four shells" :> <<In(<<"sh -c", "sh -c", "sh -c", "sh -c">>, Push)>>
  @@ "three shells" :> <<In(<<"sh -c", "subshell", "sh -c">>, Push)>>
  @@ "ls &" :> <<Then("&", Ls)>>
  @@ "ls > f" :> <<To("f", Ls)>>
  @@ "ls > $f" :> <<To("$f", Ls)>>
  @@ "ls > /dev/null" :> <<To("/dev/null", Ls)>>
  @@ "> f" :> <<To("f", C(<<>>))>>
  @@ "ls > .git/config" :> <<To(".git/config", Ls)>>
  @@ "ls > .bashrc" :> <<To(".bashrc", Ls)>>
  @@ "find -delete" :> <<C(<<"find", "-delete">>)>>
  @@ "rm -rf /" :> <<C(<<"rm", "-rf", "/">>)>>
  @@ "crontab" :> <<C(<<"crontab", "t">>)>>

PlanLines ==
  "diff" :> <<Diff>>
  @@ "diff -n" :> <<C(<<"kubectl", "-n", "a", "diff", "-f", "m">>)>>
  @@ "cd d && diff" :> <<Then("&&", Cd), Diff>>
  @@ "KUBECONFIG=k diff" :> <<Pre(<<"KUBECONFIG=k">>, Diff)>>
  @@ "! diff" :> <<Pre(<<"!">>, Diff)>>
  @@ "diff &" :> <<Then("&", Diff)>>
  @@ "diff; ls" :> <<Diff, Ls>>
  @@ "sh -c diff" :> <<In(<<"sh -c">>, Diff)>>
  @@ "apply --dry-run" :> <<C(<<"kubectl", "apply", "-f", "m", "--dry-run=server">>)>>
  @@ "helm diff" :> <<C(<<"helm", "diff", "upgrade", "r", "chart", "--detailed-exitcode">>)>>
  @@ "terraform plan" :> <<Plan>>
  @@ "cd d; terraform plan" :> <<Cd, Plan>>

ApplyLines ==
  "apply" :> <<Apply>>
  @@ "apply -n" :> <<C(<<"kubectl", "apply", "-f", "m", "-n", "a">>)>>
  @@ "apply -n -n" :> <<C(<<"kubectl", "apply", "-n", "b", "-f", "m", "-n", "a">>)>>
  @@ "apply --odd" :> <<C(<<"kubectl", "apply", "-f", "m", "--odd">>)>>
  @@ "apply --dry-run=none" :> <<C(<<"kubectl", "apply", "-f", "m", "--dry-run=none">>)>>
  @@ "cd d && apply" :> <<Then("&&", Cd), Apply>>
  @@ "cd $d && apply" :> <<Then("&&", C(<<"cd", "$d">>)), Apply>>
  @@ "KUBECONFIG=k apply" :> <<Pre(<<"KUBECONFIG=k">>, Apply)>>
  @@ "apply --kubeconfig" :> <<C(<<"kubectl", "apply", "-f", "m", "--kubeconfig=k">>)>>
  @@ "diff && apply" :> <<Then("&&", Diff), Apply>>
  @@ "apply && get" :> <<Then("&&", Apply), C(<<"kubectl", "get", "m">>)>>
  @@ "apply | cat" :> <<Then("|", Apply), C(<<"cat">>)>>
  @@ "sh -c apply" :> <<In(<<"sh -c">>, Apply)>>
  @@ "echo $(apply)" :> <<In(<<"substitution">>, Apply), C(<<"echo">>)>>
  @@ "apply twice" :> <<Apply, Apply>>
  @@ "./kubectl apply" :> <<By("relative", Apply)>>
  @@ "kubectl edit" :> <<C(<<"kubectl", "edit", "m">>)>>
  @@ "helm upgrade" :> <<Upgrade>>
  @@ "helm --post-renderer" :> <<C(<<"helm", "upgrade", "r", "chart", "--post-renderer=./render">>)>>
  @@ "helm oci" :> <<C(<<"helm", "upgrade", "r", "oci://chart">>)>>
  @@ "terraform apply p" :> <<C(<<"terraform", "apply", "p">>)>>
  @@ "cd d; terraform apply p" :> <<Cd, C(<<"terraform", "apply", "p">>)>>
  @@ "terraform apply" :> <<C(<<"terraform", "apply">>)>>
  @@ "terraform destroy" :> <<C(<<"terraform", "destroy">>)>>

LineTable == Commands1 @@ PlanLines @@ ApplyLines
\* TLC keeps LineTable, and evaluates what a constant is replaced by at each use.
AllLines == LineTable

\* What the subshell or the command keeps to itself is taken as the line's.
KeptLines == AllLines
  @@ "(cd d); diff" :> <<In(<<"subshell">>, Cd), Diff>>
  @@ "KUBECONFIG=k true; diff" :> <<Pre(<<"KUBECONFIG=k">>, C(<<"true">>)), Diff>>

Assigns == "X=1" :> [name |-> "X", value |-> "1", literal |-> TRUE]
  @@ "KUBECONFIG=k" :> [name |-> "KUBECONFIG", value |-> "k", literal |-> TRUE]

Flag(name, value) == [name |-> name, value |-> value]
Flags == "-f" :> Flag("filename", "") @@ "-n" :> Flag("namespace", "")
  @@ "--odd" :> Flag("odd", "") @@ "--dry-run=server" :> Flag("dry-run", "server")
  @@ "--dry-run=none" :> Flag("dry-run", "none") @@ "--kubeconfig=k" :> Flag("kubeconfig", "k")
  @@ "--detailed-exitcode" :> Flag("detailed-exitcode", "")
  @@ "--post-renderer=./render" :> Flag("post-renderer", "./render")
  @@ "-out=p" :> Flag("out", "p")

TwoDirs == {<<>>, <<"d">>}

Rule(tools, cmd) == [tools |-> tools, any |-> FALSE, cmd |-> cmd, to |-> ""]
BareBash == [Rule({"Bash"}, <<>>) EXCEPT !.any = TRUE]
DenyPush == {Rule({"Bash"}, <<"git", "push">>)}
DenyWrite == {Rule({"Write"}, <<"f">>)}
AllowGit == {Rule({"Bash"}, <<"git">>), Rule({"Bash"}, <<"ls">>)}

Envelope ==
  [destructive |-> {<<"kubectl", "delete">>, <<"terraform", "destroy">>},
   mutative |-> {<<"kubectl", "apply">>, <<"kubectl", "edit">>, <<"helm", "upgrade">>, <<"terraform", "apply">>},
   readOnly |-> {<<"kubectl", "get">>}, destructiveAsks |-> TRUE, planNeeded |-> TRUE, scopeAsks |-> TRUE]

Config(mode, deny, allow) ==
  [mode |-> mode, deny |-> deny, allow |-> allow, safety |-> Envelope, planned |-> FALSE,
   tries |-> DOMAIN Commands1 \cup {"diff", "apply && get", "echo $(apply)"}, edits |-> 0]
Planned(c, names) == [c EXCEPT !.planned = TRUE, !.tries = names, !.edits = 1]

Kube == {n \in DOMAIN PlanLines \cup DOMAIN ApplyLines :
           \E i \in DOMAIN AllLines[n] : AllLines[n][i].cmd[1] = "kubectl"}
Other == {"diff", "apply", "git push"} \cup ((DOMAIN PlanLines \cup DOMAIN ApplyLines) \ Kube)

Modes == <<"autopilot", "cruise", "recon", "manual">>
Denies == <<{}, DenyPush, DenyWrite>>
Allows == <<{}, AllowGit, {BareBash}>>

ConfigTable ==
  [i \in 1..36 |-> Config(Modes[1 + (i % 4)], Denies[1 + (i % 3)], Allows[1 + (i - 1) \div 12])]
  @@ 37 :> Planned(Config("cruise", DenyPush, {BareBash}), Kube)
  @@ 38 :> Planned(Config("autopilot", {}, {}), Other)
SomeConfigs == ConfigTable
KeptConfigs == 37 :> Planned(Config("cruise", {}, {}), DOMAIN KeptLines \cap
                              {"(cd d); diff", "KUBECONFIG=k true; diff", "cd d && apply", "KUBECONFIG=k apply"})
  @@ 3 :> Config("recon", {}, AllowGit)
=============================================================================
