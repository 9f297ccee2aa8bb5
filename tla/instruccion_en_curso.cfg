CONSTANTS
  MaxPid = 2
  RA = RA
  RB = RB
  Gen = Gen
  Nada = Nada
  Recursos = {RA, RB}
  Interfaces = {Gen}
  Scripts <- ScriptsFinalizar
  Instancias <- UnaInstancia
  Grado = 2
  Grados = {1, 3}
  Comandos = {"INICIAR_PROCESO", "INICIAR_PLANIFICACION", "FINALIZAR_PROCESO"}
  MaxComandos = 2
  MaxRetenidos = 4
SPECIFICATION Spec
INVARIANTS InstruccionAtendida
CHECK_DEADLOCK FALSE
