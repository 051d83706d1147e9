---------------------------- MODULE MCSelfParity ----------------------------
EXTENDS SelfParity
\* What scripts/gate_pireus_operator_self_parity_contract.sh measures, and offsets that are no lane.
Code1128  == {<<0, 3>>, <<1, 1>>, <<1, 2>>, <<2, 2>>}
Config(code, stride, offset) == [code |-> code, stride |-> stride, offset |-> offset]
MCConfigs ==
  {Config(Code1128, 1, 0), Config(Code1128, 3, 5), Config(Code1128, 7, 11),
   Config(Code1128, 15, 9), Config({}, 1, 0), Config({<<0, 1>>}, 5, 3),
   Config(Code1128, 3, 16), Config(Code1128, 3, -1), Config({}, 15, IntMax - 15)}
MCStray == {{}, {0}}
=============================================================================
